---- MODULE Spec2Model ----
(***************************************************************************)
(* State-machine model of the signal-tauri core: the transport session     *)
(* (src/src/signal/manager.rs), the send command path and the process-wide *)
(* SEND_TX handle; the device-linking flow with its provisioning session   *)
(* (src/src/signal/provisioning.rs) and the captured-secrets cell.         *)
(***************************************************************************)
EXTENDS Integers, Sequences, FiniteSets, TLC

\* ---------------------------------------------------------------- bounds
\* Calls made on the core by its environment in one behaviour: connect,
\* start_receiving, disconnect, a SendCommand issued, an inbound item
\* delivered by the receive stream.
MaxCalls == 3

Loops == 1..MaxCalls
Cmds == 1..MaxCalls

\* Inputs to the linking side in one behaviour: linking flows started by
\* the app and WebSocket messages delivered by the provisioning endpoint.
MaxLinkInputs == 4

Flows == 1..MaxLinkInputs

\* ----------------------------------------------------------------- state
VARIABLES
    SEND_TX,           \* manager.rs:40  0 = None, l = Some(sender of loop l's queue)
    nloops,            \* number of transport threads spawned so far
    pc,                \* [Loops -> position of the transport thread]
    stream,            \* [Loops -> BOOLEAN] receive_messages() returned the stream
    queue,             \* [Loops -> Seq(Cmds)] the unbounded command channel
    inflight,          \* [Loops -> SUBSET (Cmds \cup {0})] operations running
                       \*   against the loop's Manager (0 = the contacts merge)
    cmd,               \* [Cmds -> record] one send_via_channel call each
    events,            \* [0..MaxCalls -> Seq(event)] the events sent on
                       \*   event_tx for each transport session, in order
                       \*   (0: outside any session)
    last_conn,         \* the latest ConnectionStateChanged on event_tx
    connection_state,  \* SignalManager.connection_state
    ncalls             \* calls made by the environment so far

tvars == <<SEND_TX, nloops, pc, stream, queue, inflight, cmd, events, last_conn,
           connection_state, ncalls>>

VARIABLES
    linking_state,        \* app.rs SignalApp.linking_state
    nflows,               \* linking threads spawned so far
    flow,                 \* [Flows -> record] one perform_linking run each
    CAPTURED_BACKUP_KEY,  \* provisioning.rs:23, the captured-secrets cell
    levents,              \* [Flows -> Seq(event)] events each flow sent
    seen,                 \* [Flows -> Nat] events of a flow the app handled
    ninputs               \* flows started and WebSocket messages delivered

lvars == <<linking_state, nflows, flow, CAPTURED_BACKUP_KEY, levents, seen,
           ninputs>>

VARIABLES
    store,    \* the records held by the SqliteStore
    reg,      \* the complete_registration call in progress or returned last
    nregs     \* calls of complete_registration so far

rvars == <<store, reg, nregs>>

VARIABLES
    sync      \* one history sync: SignalManager::sync_message_history

svars == <<sync>>

VARIABLES
    call      \* one call of parse_backup or of read_varint: its input and
              \*   what it returned

pvars == <<call>>

VARIABLES
    tables,   \* the conversations and messages tables of the local database
    imported  \* the runs of import_backup_data so far

ivars == <<tables, imported>>

VARIABLES
    cell_calls    \* the calls made on the captured-secrets cell, in order

cvars == <<cell_calls>>

VARIABLES
    storage,    \* the Storage object: its encryption provider, database and unlocked flag
    storage_call    \* the latest call on the Storage and what it returned

stvars == <<storage, storage_call>>

VARIABLES
    derived    \* the key derivations made so far, each with its inputs and outputs

dvars == <<derived>>

vars == <<tvars, lvars, rvars, svars, pvars, ivars, cvars, stvars, dvars>>

\* ------------------------------------------------------------ vocabulary
ConnectionState == {"Disconnected", "Connecting", "Connected", "Reconnecting"}

\* SignalEvent values.
Event(k, v) == [k |-> k, v |-> v]
\* An event that reports Reconnecting whatever the state is.
ReconnectingWhatever(s) == [k |-> "ConnectionStateChanged", v |-> "Reconnecting"]

ConnectionStateChanged(s) == Event("ConnectionStateChanged", s)

\* Positions of a transport thread (start_receiving's closure and
\* receive_loop).
Starting == {"load", "open_stream"}
Running == {"select", "busy"}
Ended == {"clearing", "finished"}

\* send_rx is owned by receive_loop: it exists from the spawn until
\* receive_loop returns.
RxAlive(l) == pc[l] \in Starting \cup Running

\* A send_via_channel call: its position, the loop whose sender it cloned
\* from SEND_TX, the state of its oneshot reply, and what it returned.
NewCmd == [st |-> "new", target |-> 0, reply |-> "unset", result |-> "none"]
Returned(r) == [st |-> "returned", target |-> 0, reply |-> "unset", result |-> r]

\* Both variants of SendCommand are issued: odd calls send a DirectMessage,
\* even calls a GroupMessage.
KindOf(c) == IF c % 2 = 1 THEN "DirectMessage" ELSE "GroupMessage"

\* A perform_linking run: its position, run_provisioning_capture's
\* url_callback (TRUE: Some), perform_linking's has_backup_key, the backup
\* key it read from the cell (by: the flow that stored it) and what the
\* provisioning session did on its socket, in order; the result of the
\* latest process_provisioning_request call, whether the read loop saw the
\* socket closed or the stream ended, what run_provisioning_capture
\* returned (provision_msg) and what complete_registration returned
\* (reg_result), "none" while they have not returned.
NewFlow == [pc |-> "idle", url_callback |-> FALSE, has_backup_key |-> FALSE,
            key_of |-> 0, trace |-> <<>>, result |-> "none", closed |-> FALSE,
            provision_msg |-> "none", reg_result |-> "none"]

\* Option<CapturedProvisioningData>; by names the flow whose provision
\* message the data was taken from.
None == [some |-> FALSE, ebk |-> FALSE, by |-> 0]
Some(ebk, f) == [some |-> TRUE, ebk |-> ebk, by |-> f]

\* A complete_registration call: its position, the identity whose keys it
\* is working on, its operations in order, the outcome of
\* push_service.link_device and what the call returned.
NewReg == [pc |-> "idle", who |-> "aci", ops |-> <<>>, linked |-> "none",
           result |-> "none"]

\* A history sync: its position, the status of the transfer-archive
\* response (0: none), the TransferArchiveInfo.cdn, the downloaded bytes,
\* the requests and cryptographic operations performed, in order, the
\* plaintext produced, the result of backup::sync_message_history and the
\* events sent on event_tx.
NoData == [len |-> 0, iv |-> 0, ct |-> 0, mac |-> 0, padded |-> FALSE]
NewSync == [pc |-> "idle", status |-> 0, cdn |-> 0, data |-> NoData,
            ops |-> <<>>, decrypted |-> FALSE, result |-> "none",
            events |-> <<>>]

\* The local database: its two tables as sets of rows, and whether SQLite
\* enforces the foreign key of messages ("unset" until the database is
\* first used).
NoTables == [conversations |-> {}, messages |-> {}, foreign_keys |-> "unset"]

\* The runs of import_backup_data: which run returned last, the BackupData
\* of the first run, whether every save of the first run was executed by
\* SQLite, the ids held after it, and what the latest run returned: Ok
\* with (conversations_imported, messages_imported), or an error.
NotImported == [run |-> "none", data |-> <<>>, first_ok |-> FALSE,
                after_first |-> <<{}, {}>>, ret |-> "none", counts |-> <<0, 0>>]

\* Storage before Storage::new, and a Storage: the method and the
\* configured state of its EncryptionProvider, whether database is Some,
\* and database_unlocked.
NoStorage == [built |-> FALSE, method |-> "AutoGenerated", configured |-> FALSE,
              database |-> FALSE, database_unlocked |-> FALSE]
NoStorageCall == [fn |-> "none", ret |-> "none", before |-> NoStorage]

Init ==
    /\ SEND_TX = 0
    /\ nloops = 0
    /\ pc = [l \in Loops |-> "unborn"]
    /\ stream = [l \in Loops |-> FALSE]
    /\ queue = [l \in Loops |-> <<>>]
    /\ inflight = [l \in Loops |-> {}]
    /\ cmd = [c \in Cmds |-> NewCmd]
    /\ events = [t \in 0..MaxCalls |-> <<>>]
    /\ last_conn = "none"
    /\ connection_state = "Disconnected"
    /\ ncalls = 0
    /\ linking_state = "NotStarted"
    /\ nflows = 0
    /\ flow = [f \in Flows |-> NewFlow]
    /\ CAPTURED_BACKUP_KEY = None
    /\ levents = [f \in Flows |-> <<>>]
    /\ seen = [f \in Flows |-> 0]
    /\ ninputs = 0
    /\ store = {}
    /\ reg = NewReg
    /\ nregs = 0
    /\ sync = NewSync
    /\ call = [pc |-> "idle"]
    /\ tables = NoTables
    /\ imported = NotImported
    /\ cell_calls = <<>>
    /\ storage = NoStorage
    /\ storage_call = NoStorageCall
    /\ derived = <<>>

\* evs are sent on event_tx for session t.
LastConn(evs, old) ==
    IF \E i \in 1..Len(evs) : evs[i].k = "ConnectionStateChanged"
    THEN evs[CHOOSE i \in 1..Len(evs) :
                /\ evs[i].k = "ConnectionStateChanged"
                /\ \A j \in (i+1)..Len(evs) : evs[j].k # "ConnectionStateChanged"].v
    ELSE old

Emit(t, evs) ==
    /\ events' = [events EXCEPT ![t] = @ \o evs]
    /\ last_conn' = LastConn(evs, last_conn)

NoEmit == UNCHANGED <<events, last_conn>>

\* One more call by the environment.
Call == ncalls < MaxCalls /\ ncalls' = ncalls + 1

\* ----------------------------------------------- starting a transport loop
\* start_receiving: creates the command channel, publishes its sender and
\* spawns the thread that will run receive_loop.
SpawnLoop(l) ==
    /\ nloops' = l
    /\ SEND_TX' = l
    /\ pc' = [pc EXCEPT ![l] = "load"]

start_receiving ==
    /\ Call
    /\ SpawnLoop(nloops + 1)
    /\ UNCHANGED <<stream, queue, inflight, cmd, events, last_conn, connection_state>>

connect ==
    /\ Call
    /\ connection_state' = "Connecting"
    /\ Emit(nloops + 1, <<ConnectionStateChanged("Connecting")>>)
    /\ SpawnLoop(nloops + 1)
    /\ UNCHANGED <<stream, queue, inflight, cmd>>

disconnect ==
    /\ Call
    /\ connection_state' = "Disconnected"
    /\ Emit(0, <<ConnectionStateChanged("Disconnected")>>)
    /\ UNCHANGED <<SEND_TX, nloops, pc, stream, queue, inflight, cmd>>

\* ------------------------------------------------------- the receive loop
\* Dropping send_rx destroys the commands still queued, and with each its
\* reply sender.
DropQueued(l) ==
    [c \in Cmds |-> IF \E i \in 1..Len(queue[l]) : queue[l][i] = c
                    THEN [cmd[c] EXCEPT !.reply = "dropped"]
                    ELSE cmd[c]]

\* receive_loop returns Err(e): its locals are dropped and the closure of
\* start_receiving reports the failure.
LoopFails(l, e) ==
    /\ pc' = [pc EXCEPT ![l] = "clearing"]
    /\ cmd' = DropQueued(l)
    /\ queue' = [queue EXCEPT ![l] = <<>>]
    /\ Emit(l, <<Event("Error", e), ConnectionStateChanged("Disconnected")>>)

\* receive_loop leaves its loop by break and returns Ok.
LoopBreaks(l) ==
    /\ pc' = [pc EXCEPT ![l] = "clearing"]
    /\ cmd' = DropQueued(l)
    /\ queue' = [queue EXCEPT ![l] = <<>>]
    /\ Emit(l, <<ConnectionStateChanged("Disconnected")>>)

\* Opening the store and loading the registered manager; on success the
\* Connected event is sent.
LoadManager(l, outcome) ==
    /\ pc[l] = "load"
    /\ IF outcome = "ok"
       THEN /\ pc' = [pc EXCEPT ![l] = "open_stream"]
            /\ Emit(l, <<ConnectionStateChanged("Connected")>>)
            /\ UNCHANGED <<cmd, queue>>
       ELSE LoopFails(l, outcome)
    /\ UNCHANGED <<SEND_TX, nloops, stream, inflight, connection_state, ncalls>>

\* manager.receive_messages()
ReceiveMessages(l, ok) ==
    /\ pc[l] = "open_stream"
    /\ IF ok
       THEN /\ pc' = [pc EXCEPT ![l] = "select"]
            /\ stream' = [stream EXCEPT ![l] = TRUE]
            /\ NoEmit /\ UNCHANGED <<cmd, queue>>
       ELSE /\ LoopFails(l, "ConnectionFailed")
            /\ UNCHANGED stream
    /\ UNCHANGED <<SEND_TX, nloops, inflight, connection_state, ncalls>>

\* Inbound items of the receive stream (presage Received).  A Content item
\* carries what process_content reads: the body variant, whether the data
\* message's text is empty, its attachment count, its group context, and for
\* a sync message the `sent` part and its destination.
Item(tag, body, empty, att, group, sent, dest) ==
    [tag |-> tag, body |-> body, empty |-> empty, att |-> att, group |-> group,
     sent |-> sent, dest |-> dest]

Marker(tag) == Item(tag, "none", TRUE, 0, "none", "none", FALSE)

DataContents ==
    {Item("Content", "DataMessage", e, a, g, "none", FALSE) :
        e \in BOOLEAN, a \in {0, 1}, g \in {"none", "nokey", "key"}}

SyncContents ==
    {Item("Content", "SynchronizeMessage", e, a, g, "message", d) :
        e \in BOOLEAN, a \in {0, 1}, g \in {"none", "nokey", "key"},
        d \in BOOLEAN}
    \cup {Item("Content", "SynchronizeMessage", TRUE, 0, "none", s, FALSE) :
        s \in {"none", "nomessage"}}

OtherContents ==
    {Item("Content", b, TRUE, 0, "none", "none", FALSE) :
        b \in {"ReceiptMessage", "TypingMessage", "Other"}}

Items ==
    {Marker("QueueEmpty"), Marker("Contacts")}
        \cup DataContents \cup SyncContents \cup OtherContents

\* Option<IncomingMessage>: NoMessage is None.
NoMessage == [sender |-> "", conversation_id |-> "", has_text |-> FALSE]
IncomingMessage(sender, conv, has_text) ==
    [sender |-> sender, conversation_id |-> conv, has_text |-> has_text]

\* A data message handled without the check for an empty one.
process_data_kept(m, sender) ==
    IncomingMessage(sender,
                    IF m.group = "key" THEN "base64(master_key)" ELSE sender,
                    ~m.empty)

process_data_message(m, sender) ==
    IF m.empty /\ m.att = 0
    THEN NoMessage
    ELSE IncomingMessage(sender,
                         IF m.group = "key" THEN "base64(master_key)" ELSE sender,
                         ~m.empty)

\* A sync message handled as a data message of its sender.
process_sync_as_data(m) == process_data_message(m, "peer")

process_sync_message(m) ==
    IF m.sent # "message" THEN NoMessage
    ELSE IF m.empty /\ m.att = 0 THEN NoMessage
    ELSE IF m.group = "key"
         THEN IncomingMessage("self", "base64(master_key)", ~m.empty)
    ELSE IF m.dest
         THEN IncomingMessage("self", "destination", ~m.empty)
    ELSE NoMessage

process_content(m) ==
    CASE m.body = "DataMessage" -> process_data_message(m, "peer")
      [] m.body = "SynchronizeMessage" -> process_sync_message(m)
      [] OTHER -> NoMessage

\* The select! of receive_loop is polled only between two handlers: a handler
\* awaits its operation to the end before the loop comes back to select!.
PollingWhileBusy(l) == pc[l] \in Running

Polling(l) == pc[l] = "select"

Inbound(l, item) ==
    /\ Polling(l)
    /\ Call
    /\ CASE item.tag = "QueueEmpty" ->
              /\ Emit(l, <<Event("SyncCompleted", "")>>)
              /\ UNCHANGED <<pc, inflight>>
         [] item.tag = "Contacts" ->
              /\ pc' = [pc EXCEPT ![l] = "busy"]
              /\ inflight' = [inflight EXCEPT ![l] = @ \cup {0}]
              /\ NoEmit
         [] OTHER ->
              /\ IF process_content(item) = NoMessage
                 THEN NoEmit
                 ELSE Emit(l, <<Event("MessageReceived",
                                      process_content(item).sender)>>)
              /\ UNCHANGED <<pc, inflight>>
    /\ UNCHANGED <<SEND_TX, nloops, stream, queue, cmd, connection_state>>

\* sync_contacts_to_local has returned.
MergeDone(l, ok) ==
    /\ 0 \in inflight[l]
    /\ inflight' = [inflight EXCEPT ![l] = @ \ {0}]
    /\ pc' = [pc EXCEPT ![l] = IF inflight'[l] = {} THEN "select" ELSE @]
    /\ IF ok THEN Emit(l, <<Event("ContactUpdated", "all")>>)
             ELSE NoEmit
    /\ UNCHANGED <<SEND_TX, nloops, stream, queue, cmd, connection_state, ncalls>>

\* messages.next() returned None.
StreamEnd(l) ==
    /\ Polling(l)
    /\ LoopBreaks(l)
    /\ UNCHANGED <<SEND_TX, nloops, stream, inflight, connection_state, ncalls>>

\* Senders of loop l's channel still alive: the published handle and the
\* clone each send_via_channel call holds until it returns.
Senders(l) ==
    (IF SEND_TX = l THEN {0} ELSE {})
        \cup {c \in Cmds : cmd[c].target = l /\ cmd[c].st \in {"holding", "waiting"}}

\* send_rx.recv() returned None: the channel is empty and has no sender left.
ChannelClosed(l) ==
    /\ Polling(l)
    /\ queue[l] = <<>>
    /\ Senders(l) = {}
    /\ LoopBreaks(l)
    /\ UNCHANGED <<SEND_TX, nloops, stream, inflight, connection_state, ncalls>>

\* A receive that takes the command enqueued last.
RecvLast(l) ==
    /\ Polling(l)
    /\ queue[l] # <<>>
    /\ queue' = [queue EXCEPT ![l] = SubSeq(@, 1, Len(@) - 1)]
    /\ inflight' = [inflight EXCEPT ![l] = @ \cup {queue[l][Len(queue[l])]}]
    /\ pc' = [pc EXCEPT ![l] = "busy"]
    /\ UNCHANGED <<SEND_TX, nloops, stream, cmd, events, last_conn, connection_state, ncalls>>

\* send_rx.recv() returned a command: its send is started on the manager.
RecvCmd(l) ==
    /\ Polling(l)
    /\ queue[l] # <<>>
    /\ queue' = [queue EXCEPT ![l] = Tail(@)]
    /\ inflight' = [inflight EXCEPT ![l] = @ \cup {Head(queue[l])}]
    /\ pc' = [pc EXCEPT ![l] = "busy"]
    /\ UNCHANGED <<SEND_TX, nloops, stream, cmd, events, last_conn, connection_state, ncalls>>

\* send_dm_with_manager / send_group_with_manager returned; the result is
\* sent on the command's reply and the loop goes back to select!.
SendResult(ok) == IF ok THEN "Ok" ELSE "SendFailed"

\* Where the loop goes once the send handler is done: the result, Ok or
\* Err, is only passed to the reply.
AfterSendPropagates(ok) == IF ok THEN "select" ELSE "clearing"

AfterSend(ok) == "select"

SendDone(l, c, ok) ==
    /\ c \in inflight[l] \ {0}
    /\ inflight' = [inflight EXCEPT ![l] = @ \ {c}]
    /\ pc' = [pc EXCEPT ![l] = IF inflight'[l] = {} THEN AfterSend(ok) ELSE @]
    /\ cmd' = [cmd EXCEPT ![c].reply = SendResult(ok)]
    /\ UNCHANGED <<SEND_TX, nloops, stream, queue, events, last_conn,
                   connection_state, ncalls>>

\* The closure of start_receiving, after receive_loop has returned, stores
\* None in SEND_TX.
ClearHandleKeeps(l) == SEND_TX

ClearHandle(l) == 0

Clear(l) ==
    /\ pc[l] = "clearing"
    /\ pc' = [pc EXCEPT ![l] = "finished"]
    /\ SEND_TX' = ClearHandle(l)
    /\ UNCHANGED <<nloops, stream, queue, inflight, cmd, events, last_conn,
                   connection_state, ncalls>>

\* --------------------------------------------------- issuing a SendCommand
AnyLoopRunning == \E l \in Loops : pc[l] \in Running

\* send_message_static / send_group_message_static up to the read of
\* SEND_TX in send_via_channel.
Submit(c) ==
    /\ Call
    /\ cmd[c].st = "new"
    /\ \A d \in Cmds : d < c => cmd[d].st # "new"
    /\ cmd' = [cmd EXCEPT ![c] =
         IF SEND_TX = 0
         THEN Returned("NotConnected")
         ELSE [@ EXCEPT !.st = "holding", !.target = SEND_TX,
                        !.reply = "pending"]]
    /\ UNCHANGED <<SEND_TX, nloops, pc, stream, queue, inflight, events, last_conn,
                   connection_state>>

\* send_tx.send(cmd)
Enqueue(c) ==
    /\ cmd[c].st = "holding"
    /\ IF RxAlive(cmd[c].target)
       THEN /\ queue' = [queue EXCEPT ![cmd[c].target] = Append(@, c)]
            /\ cmd' = [cmd EXCEPT ![c].st = "waiting"]
       ELSE /\ cmd' = [cmd EXCEPT ![c] = Returned("ChannelClosed")]
            /\ UNCHANGED queue
    /\ UNCHANGED <<SEND_TX, nloops, pc, stream, inflight, events, last_conn,
                   connection_state, ncalls>>

\* rx.await
Await(c) ==
    /\ cmd[c].st = "waiting"
    /\ cmd[c].reply \in {"Ok", "SendFailed", "dropped"}
    /\ cmd' = [cmd EXCEPT ![c] = Returned(IF cmd[c].reply = "dropped"
                                           THEN "ResponseClosed"
                                           ELSE cmd[c].reply)]
    /\ UNCHANGED <<SEND_TX, nloops, pc, stream, queue, inflight, events, last_conn,
                   connection_state, ncalls>>

\* ------------------------------------------------------------ the system
LoadOutcomes == {"ok", "StorageError", "NotRegistered"}

TransportStep ==
    \/ start_receiving
    \/ connect
    \/ disconnect
    \/ \E l \in Loops, o \in LoadOutcomes : LoadManager(l, o)
    \/ \E l \in Loops, ok \in BOOLEAN : ReceiveMessages(l, ok)
    \/ \E l \in Loops, item \in Items : Inbound(l, item)
    \/ \E l \in Loops, ok \in BOOLEAN : MergeDone(l, ok)
    \/ \E l \in Loops : StreamEnd(l)
    \/ \E l \in Loops : ChannelClosed(l)
    \/ \E l \in Loops : RecvCmd(l)
    \/ \E l \in Loops, c \in Cmds, ok \in BOOLEAN : SendDone(l, c, ok)
    \/ \E l \in Loops : Clear(l)
    \/ \E c \in Cmds : Submit(c)
    \/ \E c \in Cmds : Enqueue(c)
    \/ \E c \in Cmds : Await(c)

NextTransport == TransportStep /\ UNCHANGED <<lvars, rvars, svars, pvars, ivars, cvars, stvars, dvars>>

Spec == Init /\ [][NextTransport]_vars

\* ------------------------------------------------- the captured-secrets cell
store_captured_data(data) == CAPTURED_BACKUP_KEY' = data

has_backup_key == CAPTURED_BACKUP_KEY.some /\ CAPTURED_BACKUP_KEY.ebk

\* Some(key) is the cell's content when it holds a backup key, else None.
\* The cell is read, not taken.
get_ephemeral_backup_key ==
    IF CAPTURED_BACKUP_KEY.some /\ CAPTURED_BACKUP_KEY.ebk
    THEN CAPTURED_BACKUP_KEY ELSE None

CellAfterGet == CAPTURED_BACKUP_KEY

\* ------------------------------------------------------- the linking flow
LEmit(f, evs) == levents' = [levents EXCEPT ![f] = @ \o evs]

\* One more input to the linking side.
LinkInput == ninputs < MaxLinkInputs /\ ninputs' = ninputs + 1

\* SignalManager::start_linking: the thread that runs perform_linking.
SpawnFlow(f) ==
    /\ LinkInput
    /\ nflows' = f
    /\ flow' = [flow EXCEPT ![f].pc = "open_store"]

\* SignalApp::start_linking
start_linking ==
    /\ linking_state = "NotStarted"
    /\ linking_state' = "Generating"
    /\ SpawnFlow(nflows + 1)
    /\ UNCHANGED <<CAPTURED_BACKUP_KEY, levents, seen>>

\* SignalApp::retry_linking
retry_linking ==
    /\ linking_state = "Error"
    /\ linking_state' = "Generating"
    /\ SpawnFlow(nflows + 1)
    /\ UNCHANGED <<CAPTURED_BACKUP_KEY, levents, seen>>

\* A closure that reports the failure and lets the flow go on with the
\* manager load.
LinkFailsResumes(fl, f, e) ==
    /\ flow' = [fl EXCEPT ![f].pc = "load_manager"]
    /\ LEmit(f, <<Event("LinkingFailed", e)>>)

\* perform_linking returned Err(e), leaving the flow record as fl:
\* start_linking's closure sends the terminal event.
LinkFails(fl, f, e) ==
    /\ flow' = [fl EXCEPT ![f].pc = "done"]
    /\ LEmit(f, <<Event("LinkingFailed", e)>>)

\* SqliteStore::open_with_passphrase in perform_linking
LinkOpenStore(f, ok) ==
    /\ flow[f].pc = "open_store"
    /\ IF ok
       THEN /\ flow' = [flow EXCEPT ![f].pc = "ws_connect"]
            /\ UNCHANGED levents
       ELSE LinkFails(flow, f, "StorageError")
    /\ UNCHANGED <<linking_state, nflows, CAPTURED_BACKUP_KEY, seen, ninputs>>

\* run_provisioning_capture up to its read loop.
WsConnect(f, ok) ==
    /\ flow[f].pc = "ws_connect"
    /\ IF ok
       THEN /\ flow' = [flow EXCEPT ![f].pc = "ws_read", ![f].url_callback = TRUE]
            /\ UNCHANGED levents
       ELSE /\ flow' = [flow EXCEPT ![f].pc = "done",
                                      ![f].provision_msg = "NetworkError"]
            /\ LEmit(f, <<Event("LinkingFailed", "NetworkError")>>)
    /\ UNCHANGED <<linking_state, nflows, CAPTURED_BACKUP_KEY, seen, ninputs>>

\* What ws.next() yields.  A Binary message that decodes to a request has a
\* verb and path ("address": PUT /v1/address, "message": PUT /v1/message,
\* "unknown": anything else), a request id, and a body that is usable
\* ("ok"), absent ("missing"), not decodable or not decryptable ("bad") or
\* lacks a mandatory field ("incomplete"); ebk says whether the provision
\* message carries an ephemeral backup key.  The endpoint numbers its
\* requests: the n-th message delivered carries id n.

WsMsg(tag, path, id, body, ebk) ==
    [tag |-> tag, path |-> path, id |-> id, body |-> body, ebk |-> ebk]

Requests ==
    {WsMsg("Request", p, i, b, FALSE) :
        p \in {"address", "unknown"}, i \in 1..MaxLinkInputs,
        b \in {"ok", "missing", "bad", "incomplete"}}
    \cup {WsMsg("Request", "message", i, b, k) :
        i \in 1..MaxLinkInputs, b \in {"ok", "missing", "bad", "incomplete"},
        k \in BOOLEAN}

WsMsgs ==
    {WsMsg(t, "none", 0, "none", FALSE) :
        t \in {"End", "Err", "Close", "Other", "Undecodable", "NoRequest"}}
    \cup Requests

\* Processing that takes every request for one of the two it knows.
process_any_request(r) == IF r.path = "message" THEN "Message" ELSE "Url"

\* process_provisioning_request: "Url", "Message" or "Err".
process_provisioning_request(r) ==
    CASE r.path = "address" /\ r.body = "ok" -> "Url"
      [] r.path = "message" /\ r.body = "ok" -> "Message"
      [] OTHER -> "Err"

\* Socket and callback operations of a provisioning session, each with the
\* request id it is about (0: none) and an argument: the status of a
\* response written, 1 or 0 for a request processed to Ok or to Err.
Op(op, id, arg) == [op |-> op, id |-> id, arg |-> arg]
Read(m) == Op("read", m.id, 0)
Processed(r, res) == Op("process", r.id, IF res = "Err" THEN 0 ELSE 1)

\* The WebSocketResponseMessage sent for request r.
ResponseNoId(r) == Op("write", 0, 200)

Response(r) == Op("write", r.id, 200)

\* What run_provisioning_capture does with a request that was processed
\* to result res, when the response could be sent (sent) or not.
RequestOps(r, res, cb, sent) ==
    <<Processed(r, res), Response(r)>>
        \o (IF sent /\ res = "Url" /\ cb THEN <<Op("callback", r.id, 0)>> ELSE <<>>)
        \o (IF sent /\ res = "Message" THEN <<Op("store", r.id, 0)>> ELSE <<>>)

\* One iteration of the read loop of run_provisioning_capture, and for the
\* message request the statements of perform_linking up to registration.
WsRead(f, m, sent) ==
    LET res == process_provisioning_request(m)
        tr == Append(flow[f].trace, Read(m))
    IN
    /\ flow[f].pc = "ws_read"
    /\ m.tag = "Request" => m.id = ninputs + 1
    /\ LinkInput
    /\ CASE m.tag \in {"End", "Close"} ->
              /\ flow' = [flow EXCEPT ![f].pc = "done", ![f].trace = tr,
                                      ![f].closed = TRUE,
                                      ![f].provision_msg = "ProtocolError"]
              /\ LEmit(f, <<Event("LinkingFailed", "ProtocolError")>>)
              /\ UNCHANGED CAPTURED_BACKUP_KEY
         [] m.tag = "Undecodable" ->
              /\ flow' = [flow EXCEPT ![f].pc = "done", ![f].trace = tr,
                                      ![f].provision_msg = "ProtocolError"]
              /\ LEmit(f, <<Event("LinkingFailed", "ProtocolError")>>)
              /\ UNCHANGED CAPTURED_BACKUP_KEY
         [] m.tag = "Err" ->
              /\ flow' = [flow EXCEPT ![f].pc = "done", ![f].trace = tr,
                                      ![f].provision_msg = "NetworkError"]
              /\ LEmit(f, <<Event("LinkingFailed", "NetworkError")>>)
              /\ UNCHANGED CAPTURED_BACKUP_KEY
         [] m.tag \in {"Other", "NoRequest"} ->
              /\ flow' = [flow EXCEPT ![f].trace = tr]
              /\ UNCHANGED <<levents, CAPTURED_BACKUP_KEY>>
         [] m.tag = "Request" /\ res = "Err" ->
              /\ flow' = [flow EXCEPT ![f].pc = "done",
                                      ![f].result = res,
                                      ![f].provision_msg = "ProtocolError",
                                      ![f].trace = Append(tr, Processed(m, res))]
              /\ LEmit(f, <<Event("LinkingFailed", "ProtocolError")>>)
              /\ UNCHANGED CAPTURED_BACKUP_KEY
         [] m.tag = "Request" /\ res # "Err" /\ ~sent ->
              /\ flow' = [flow EXCEPT
                            ![f].pc = "done",
                            ![f].result = res,
                            ![f].provision_msg = "NetworkError",
                            ![f].trace = tr \o RequestOps(m, res, flow[f].url_callback, FALSE)]
              /\ LEmit(f, <<Event("LinkingFailed", "NetworkError")>>)
              /\ UNCHANGED CAPTURED_BACKUP_KEY
         [] m.tag = "Request" /\ res = "Url" /\ sent ->
              /\ flow' = [flow EXCEPT
                            ![f].url_callback = FALSE,
                            ![f].result = res,
                            ![f].trace = tr \o RequestOps(m, res, flow[f].url_callback, TRUE)]
              /\ IF flow[f].url_callback
                 THEN LEmit(f, <<Event("ProvisioningUrlReady", "url")>>)
                 ELSE UNCHANGED levents
              /\ UNCHANGED CAPTURED_BACKUP_KEY
         [] m.tag = "Request" /\ res = "Message" /\ sent ->
              /\ flow' = [flow EXCEPT
                            ![f].pc = "register",
                            ![f].result = res,
                            ![f].provision_msg = "Ok",
                            ![f].has_backup_key = m.ebk,
                            ![f].trace = tr \o RequestOps(m, res, flow[f].url_callback, TRUE)]
              /\ store_captured_data(Some(m.ebk, f))
              /\ IF m.ebk
                 THEN LEmit(f, <<Event("MessageHistoryAvailable", "")>>)
                 ELSE UNCHANGED levents
    /\ UNCHANGED <<linking_state, nflows, seen>>

\* registration::complete_registration, then storage.save_account (whose
\* failure is only logged).
Register(f, outcome) ==
    /\ flow[f].pc = "register"
    /\ IF outcome = "ok"
       THEN /\ flow' = [flow EXCEPT ![f].pc = IF flow[f].has_backup_key
                                              THEN "read_key" ELSE "load_manager",
                                      ![f].reg_result = "Ok"]
            /\ UNCHANGED levents
       ELSE LinkFails([flow EXCEPT ![f].reg_result = outcome], f, outcome)
    /\ UNCHANGED <<linking_state, nflows, CAPTURED_BACKUP_KEY, seen, ninputs>>

\* perform_linking reads the backup key from the cell and, when there is
\* one, starts the history sync (whose first progress event is sent).
ReadKey(f) ==
    /\ flow[f].pc = "read_key"
    /\ IF get_ephemeral_backup_key # None
       THEN /\ flow' = [flow EXCEPT ![f].pc = "history_sync",
                                      ![f].key_of = get_ephemeral_backup_key.by]
            /\ LEmit(f, <<Event("MessageHistorySyncProgress", "0/0")>>)
       ELSE /\ flow' = [flow EXCEPT ![f].pc = "load_manager"]
            /\ UNCHANGED levents
    /\ CAPTURED_BACKUP_KEY' = CellAfterGet
    /\ UNCHANGED <<linking_state, nflows, seen, ninputs>>

\* A history sync whose error is returned by perform_linking.
HistorySyncAborts(f, outcome) ==
    /\ flow[f].pc = "history_sync"
    /\ IF outcome = "ok"
       THEN /\ flow' = [flow EXCEPT ![f].pc = "load_manager"]
            /\ LEmit(f, <<Event("MessageHistorySyncProgress", "half"),
                          Event("MessageHistorySyncProgress", "all"),
                          Event("MessageHistorySyncCompleted", "count")>>)
       ELSE LinkFails(flow, f, outcome)
    /\ UNCHANGED <<linking_state, nflows, CAPTURED_BACKUP_KEY, seen, ninputs>>

\* SignalManager::sync_message_history returned.
HistorySync(f, outcome) ==
    /\ flow[f].pc = "history_sync"
    /\ flow' = [flow EXCEPT ![f].pc = "load_manager"]
    /\ CASE outcome = "ok" ->
              LEmit(f, <<Event("MessageHistorySyncProgress", "half"),
                         Event("MessageHistorySyncProgress", "all"),
                         Event("MessageHistorySyncCompleted", "count")>>)
         [] outcome = "import_failed" ->
              LEmit(f, <<Event("MessageHistorySyncProgress", "half"),
                         Event("MessageHistorySyncFailed", "StorageError")>>)
         [] OTHER ->
              LEmit(f, <<Event("MessageHistorySyncFailed", outcome)>>)
    /\ UNCHANGED <<linking_state, nflows, CAPTURED_BACKUP_KEY, seen, ninputs>>

\* Manager::load_registered and request_contacts (whose failure is only
\* logged); then start_linking's closure sends the terminal event.
LinkLoadManager(f, ok) ==
    /\ flow[f].pc = "load_manager"
    /\ IF ok
       THEN /\ flow' = [flow EXCEPT ![f].pc = "done"]
            /\ LEmit(f, <<Event("LinkingCompleted", "")>>)
       ELSE LinkFails(flow, f, "StorageError")
    /\ UNCHANGED <<linking_state, nflows, CAPTURED_BACKUP_KEY, seen, ninputs>>

\* SignalApp::handle_event; qr says whether render_qr_code produced an
\* image.
StateAfter(ev, qr, old) ==
    CASE ev.k = "ProvisioningUrlReady" -> IF qr THEN "WaitingForScan" ELSE "Error"
      [] ev.k = "LinkingCompleted" -> "Success"
      [] ev.k = "LinkingFailed" -> "Error"
      [] OTHER -> old

RECURSIVE Handled(_, _, _, _)
Handled(evs, i, qr, st) ==
    IF i > Len(evs) THEN st ELSE Handled(evs, i + 1, qr, StateAfter(evs[i], qr, st))

\* SignalApp::process_events: every pending event is handled, in order.
process_events(f, qr) ==
    /\ seen[f] < Len(levents[f])
    /\ seen' = [seen EXCEPT ![f] = Len(levents[f])]
    /\ linking_state' = Handled(levents[f], seen[f] + 1, qr, linking_state)
    /\ UNCHANGED <<nflows, flow, CAPTURED_BACKUP_KEY, levents, ninputs>>

RegisterOutcomes == {"ok", "ProtocolError", "StorageError", "LinkingFailed"}
SyncOutcomes == {"ok", "NetworkError", "ProtocolError", "CryptoError",
                 "import_failed"}

LinkStep ==
    \/ start_linking
    \/ retry_linking
    \/ \E f \in Flows, ok \in BOOLEAN : LinkOpenStore(f, ok)
    \/ \E f \in Flows, ok \in BOOLEAN : WsConnect(f, ok)
    \/ \E f \in Flows, m \in WsMsgs, sent \in BOOLEAN : WsRead(f, m, sent)
    \/ \E f \in Flows, o \in RegisterOutcomes : Register(f, o)
    \/ \E f \in Flows : ReadKey(f)
    \/ \E f \in Flows, o \in SyncOutcomes : HistorySync(f, o)
    \/ \E f \in Flows, ok \in BOOLEAN : LinkLoadManager(f, ok)
    \/ \E f \in Flows, qr \in BOOLEAN : process_events(f, qr)

NextLink == LinkStep /\ UNCHANGED <<tvars, rvars, svars, pvars, ivars, cvars, stvars, dvars>>

SpecLink == Init /\ [][NextLink]_vars

\* ------------------------------------------------------------------ claims
Connected == ConnectionStateChanged("Connected")
Connecting == ConnectionStateChanged("Connecting")
Disconnected == ConnectionStateChanged("Disconnected")

Has(seq, e) == \E i \in 1..Len(seq) : seq[i] = e

\* C1 (as claimed): the reply of every submitted SendCommand is resolved by
\* the transport loop with the send result or the submission is rejected at
\* once; no reply is destroyed without a result having been sent on it.
C1_ReplyNeverDropped ==
    \A c \in Cmds :
        /\ cmd[c].reply # "dropped"
        /\ cmd[c].result \in {"none", "Ok", "SendFailed", "NotConnected",
                              "ChannelClosed"}

\* C2 (as claimed): a SendCommand issued while no transport loop is running
\* returns the not-connected error at once and is not enqueued.
C2_NotConnectedWhenNoLoop ==
    [][\A c \in Cmds :
          (cmd[c].st = "new" /\ cmd'[c].st # "new" /\ ~AnyLoopRunning)
              => cmd'[c] = Returned("NotConnected")]_vars

\* C3 (as claimed): SEND_TX is Some only while the loop it belongs to is
\* servicing its receive stream and command queue.
C3_PublishedOnlyWhileRunning ==
    SEND_TX # 0 => pc[SEND_TX] \in Running

C5_OneOperationInFlight ==
    /\ [](\A l \in Loops : Cardinality(inflight[l]) <= 1)
    /\ [][\A l \in Loops :
            inflight[l] # {} =>
                /\ inflight'[l] \subseteq inflight[l]
                /\ Len(queue'[l]) >= Len(queue[l])
                /\ pc'[l] # pc[l] => (pc'[l] = "select" /\ inflight'[l] = {})
                /\ events'[l] # events[l] => inflight'[l] = {}]_vars

C5_Witness ==
    \E l \in Loops : inflight[l] # {} /\ inflight[l] # {0} /\ queue[l] # <<>>

C7_ConnectingThenConnected ==
    \A l \in Loops :
        \A i \in 1..Len(events[l]) :
            events[l][i] = Connected =>
                /\ stream[l]
                /\ i > 1 /\ events[l][i - 1] = Connecting

\* C8 (as claimed): the linking flow's read of the backup key takes the data
\* out of the cell, so the data a flow has read is not in the cell any more.
C8_ReadConsumesCell ==
    \A f \in Flows :
        flow[f].key_of # 0 =>
            ~(CAPTURED_BACKUP_KEY.some /\ CAPTURED_BACKUP_KEY.by = flow[f].key_of)

\* C9: in a provisioning session every request processed to Ok is answered,
\* right after its processing and so before the next read, by one response
\* of status 200 with the id of that request, and no other response with
\* that id is written.
C9_OneResponsePerRequest ==
    \A f \in Flows :
        LET tr == flow[f].trace IN
        \A i \in 1..Len(tr) :
            /\ tr[i].op = "process" /\ tr[i].arg = 1 =>
                  /\ i > 1 /\ tr[i - 1] = Op("read", tr[i].id, 0)
                  /\ i < Len(tr) /\ tr[i + 1] = Op("write", tr[i].id, 200)
                  /\ Cardinality({j \in 1..Len(tr) :
                         tr[j].op = "write" /\ tr[j].id = tr[i].id}) = 1
            /\ tr[i].op = "write" =>
                  i > 1 /\ tr[i - 1] = Op("process", tr[i].id, 1)

C9_Witness ==
    \E f \in Flows :
        LET tr == flow[f].trace IN
        \E i, j \in 1..Len(tr) :
            /\ i < j
            /\ tr[i].op = "write" /\ tr[j].op = "write"
            /\ tr[i].id # tr[j].id
            /\ flow[f].pc = "register"

\* C10 (as claimed): the URL callback runs right after the address request
\* was processed into the provisioning URI, with no socket read or write in
\* between, and at most once in a provisioning attempt.
C10_CallbackBeforeNetwork ==
    \A f \in Flows :
        LET tr == flow[f].trace IN
        /\ \A i \in 1..Len(tr) :
              tr[i].op = "callback" =>
                  i > 1 /\ tr[i - 1] = Op("process", tr[i].id, 1)
        /\ Cardinality({i \in 1..Len(tr) : tr[i].op = "callback"}) <= 1

\* C11 (as claimed): run_provisioning_capture returns Ok exactly when the
\* message request was received and decrypted, and then the read loop has
\* ended; when the socket was closed or the stream ended first, it returned
\* ProtocolError.
C11_SuccessIffMessageDecrypted ==
    \A f \in Flows :
        /\ flow[f].result = "Message" => flow[f].pc # "ws_read"
        /\ flow[f].pc # "ws_read" /\ flow[f].provision_msg # "none" =>
              (flow[f].provision_msg = "Ok" <=> flow[f].result = "Message")
        /\ flow[f].closed => flow[f].provision_msg = "ProtocolError"

Terminal(e) == e.k \in {"LinkingCompleted", "LinkingFailed"}
Terminals(f) == {i \in 1..Len(levents[f]) : Terminal(levents[f][i])}
SyncEvent(e) == e.k \in {"MessageHistorySyncProgress", "MessageHistorySyncCompleted",
                         "MessageHistorySyncFailed"}

MaxRegistrations == 2

PRE_KEY_MEDIUM_MAX_VALUE == 16777215

Identities == {"aci", "pni"}

\* A record of the store: whose protocol store it is in, its kind, its id.
Rec(who, kind, id) == [who |-> who, kind |-> kind, id |-> id]

\* An operation of a call that has an effect outside it: a save into the
\* store or the device-link request.
Save(r) == [op |-> "save", rec |-> r]
LinkCall == [op |-> "link_device", rec |-> Rec("account", "none", 0)]

\* The `?` on an Err: the call returns it.
RegReturns(r, res) == reg' = [r EXCEPT !.pc = "returned", !.result = res]

\* A store that drops the record it is asked to save.
WithRecordLost(s, r) == s

\* save_signed_pre_key, store_last_resort_kyber_pre_key,
\* set_*_identity_key_pair, save_registration_data
WithRecord(s, r) == s \cup {r}

\* A call that, when the link request fails, removes what it had saved.
StoreRolledBack(s, ops) ==
    s \ {ops[i].rec : i \in {j \in 1..Len(ops) : ops[j].op = "save"}}

\* The store when link_device has failed: nothing is undone.
StoreAfterLinkFailure(s, ops) == s

\* protocol_store.next_signed_pre_key_id() and next_pq_pre_key_id(): the
\* store counts the records of the kind it already holds.
next_signed_pre_key_id(who) ==
    Cardinality({r \in store : r.who = who /\ r.kind = "signed_pre_key"})
next_pq_pre_key_id(who) ==
    Cardinality({r \in store : r.who = who /\ r.kind = "last_resort_kyber_pre_key"})

\* Entry of complete_registration: the identity keys and the profile key
\* of the provision message are parsed.
complete_registration(parsed) ==
    /\ reg.pc \in {"idle", "returned"}
    /\ nregs < MaxRegistrations
    /\ nregs' = nregs + 1
    /\ reg' = IF parsed
              THEN [NewReg EXCEPT !.pc = "pre_key_ids"]
              ELSE [NewReg EXCEPT !.pc = "returned", !.result = "ProtocolError"]
    /\ UNCHANGED store

\* generate_pre_keys: the three next-id reads (the loops over
\* pre_key_count = 0 and kyber_pre_key_count = 0 do nothing).
NextPreKeyIds(ok) ==
    /\ reg.pc = "pre_key_ids"
    /\ IF ok THEN reg' = [reg EXCEPT !.pc = "signed_pre_key"]
             ELSE RegReturns(reg, "ProtocolError")
    /\ UNCHANGED <<store, nregs>>

\* generate_pre_keys: the signed pre-key is signed and saved.
SaveSignedPreKey(outcome) ==
    LET r == Rec(reg.who, "signed_pre_key", next_signed_pre_key_id(reg.who)) IN
    /\ reg.pc = "signed_pre_key"
    /\ IF outcome = "ok"
       THEN /\ store' = WithRecord(store, r)
            /\ reg' = [reg EXCEPT !.pc = "last_resort", !.ops = Append(@, Save(r))]
       ELSE /\ RegReturns(reg, outcome)
            /\ UNCHANGED store
    /\ UNCHANGED nregs

\* generate_pre_keys: the last-resort Kyber pre-key is generated and
\* stored; complete_registration then goes on with the PNI identity, or
\* with the link request.
StoreLastResortKyberPreKey(outcome) ==
    LET id == ((next_pq_pre_key_id(reg.who) + 0) % (PRE_KEY_MEDIUM_MAX_VALUE - 1)) + 1
        r == Rec(reg.who, "last_resort_kyber_pre_key", id) IN
    /\ reg.pc = "last_resort"
    /\ IF outcome = "ok"
       THEN /\ store' = WithRecord(store, r)
            /\ reg' = IF reg.who = "aci"
                      THEN [reg EXCEPT !.pc = "pre_key_ids", !.who = "pni",
                                       !.ops = Append(@, Save(r))]
                      ELSE [reg EXCEPT !.pc = "link_request",
                                       !.ops = Append(@, Save(r))]
       ELSE /\ RegReturns(reg, outcome)
            /\ UNCHANGED store
    /\ UNCHANGED nregs

\* encrypt_device_name and the conversions that build the LinkRequest.
BuildLinkRequest(ok) ==
    /\ reg.pc = "link_request"
    /\ IF ok THEN reg' = [reg EXCEPT !.pc = "link_device"]
             ELSE RegReturns(reg, "ProtocolError")
    /\ UNCHANGED <<store, nregs>>

\* push_service.link_device(&request, http_auth)
link_device(ok) ==
    /\ reg.pc = "link_device"
    /\ IF ok
       THEN /\ reg' = [reg EXCEPT !.pc = "identity", !.who = "aci",
                                  !.linked = "ok", !.ops = Append(@, LinkCall)]
            /\ UNCHANGED store
       ELSE /\ RegReturns([reg EXCEPT !.linked = "failed",
                                      !.ops = Append(@, LinkCall)], "LinkingFailed")
            /\ store' = StoreAfterLinkFailure(store, reg.ops)
    /\ UNCHANGED nregs

\* store.set_aci_identity_key_pair, then store.set_pni_identity_key_pair
set_identity_key_pair(ok) ==
    LET r == Rec(reg.who, "identity_key_pair", 0) IN
    /\ reg.pc = "identity"
    /\ IF ok
       THEN /\ store' = WithRecord(store, r)
            /\ reg' = IF reg.who = "aci"
                      THEN [reg EXCEPT !.who = "pni", !.ops = Append(@, Save(r))]
                      ELSE [reg EXCEPT !.pc = "registration_data",
                                       !.ops = Append(@, Save(r))]
       ELSE /\ RegReturns(reg, "StorageError")
            /\ UNCHANGED store
    /\ UNCHANGED nregs

\* The phone number is parsed, the RegistrationData built and saved, and
\* the RegistrationResult returned.
save_registration_data(outcome) ==
    LET r == Rec("account", "registration_data", 0) IN
    /\ reg.pc = "registration_data"
    /\ IF outcome = "ok"
       THEN /\ store' = WithRecord(store, r)
            /\ RegReturns([reg EXCEPT !.ops = Append(@, Save(r))], "Ok")
       ELSE /\ RegReturns(reg, outcome)
            /\ UNCHANGED store
    /\ UNCHANGED nregs

SaveOutcomes == {"ok", "ProtocolError", "StorageError"}

RegStep ==
    \/ \E parsed \in BOOLEAN : complete_registration(parsed)
    \/ \E ok \in BOOLEAN : NextPreKeyIds(ok)
    \/ \E o \in SaveOutcomes : SaveSignedPreKey(o)
    \/ \E o \in SaveOutcomes : StoreLastResortKyberPreKey(o)
    \/ \E ok \in BOOLEAN : BuildLinkRequest(ok)
    \/ \E ok \in BOOLEAN : link_device(ok)
    \/ \E ok \in BOOLEAN : set_identity_key_pair(ok)
    \/ \E o \in SaveOutcomes : save_registration_data(o)

NextReg == RegStep /\ UNCHANGED <<tvars, lvars, svars, pvars, ivars, cvars, stvars, dvars>>

SpecReg == Init /\ [][NextReg]_vars

RegOp(i) == reg.ops[i]
PreKeyKinds == {"signed_pre_key", "last_resort_kyber_pre_key"}
LinkCalls == {i \in 1..Len(reg.ops) : RegOp(i).op = "link_device"}
Saves(kinds) ==
    {i \in 1..Len(reg.ops) : RegOp(i).op = "save" /\ RegOp(i).rec.kind \in kinds}

\* C13: when complete_registration issues the device-link request it has
\* saved, for the ACI and for the PNI identity, a signed pre-key and a
\* last-resort Kyber pre-key, and these four records are in the store; they
\* are still there when the request has failed and the call has returned,
\* and no step of a call removes a record from the store.
C13_PreKeysSavedBeforeLink ==
    /\ [](\A j \in LinkCalls :
            /\ \A w \in Identities, k \in PreKeyKinds :
                  \E i \in Saves({k}) :
                      i < j /\ RegOp(i).rec.who = w /\ RegOp(i).rec \in store
            /\ Cardinality({i \in Saves(PreKeyKinds) : i < j}) = 4)
    /\ [](reg.pc = "link_device" => Cardinality(Saves(PreKeyKinds)) = 4)
    /\ [][store \subseteq store']_vars

C13_Witness ==
    /\ reg.linked = "failed" /\ reg.result = "LinkingFailed"
    /\ nregs = 2
    /\ Cardinality(store) = 8

\* C14: complete_registration saves the identity key pairs and the
\* registration record only after link_device has succeeded; when
\* link_device failed it returned LinkingFailed and saved none of them; it
\* returns Ok only when it has saved both identity key pairs and the
\* registration record, in that order, and the store holds them.
C14_IdentitySavedAfterLink ==
    LET late == Saves({"identity_key_pair", "registration_data"}) IN
    /\ \A i \in late : reg.linked = "ok" /\ \E j \in LinkCalls : j < i
    /\ reg.linked = "failed" =>
          reg.pc = "returned" /\ reg.result = "LinkingFailed" /\ late = {}
    /\ reg.result = "LinkingFailed" => reg.linked = "failed"
    /\ reg.result = "Ok" =>
          /\ Len(reg.ops) = 8
          /\ RegOp(6) = Save(Rec("aci", "identity_key_pair", 0))
          /\ RegOp(7) = Save(Rec("pni", "identity_key_pair", 0))
          /\ RegOp(8) = Save(Rec("account", "registration_data", 0))
          /\ \A i \in late : RegOp(i).rec \in store

C14_Witness ==
    /\ reg.result = "Ok"
    /\ nregs = 2

\* ------------------------------------------------- message history sync
\* SignalManager::sync_message_history over backup::sync_message_history:
\* fetch_transfer_archive, download_backup, decrypt_backup, parse_backup,
\* then import_backup_data, as perform_linking runs it.

\* The largest CDN number a transfer archive response names.
MaxCdn == 4
\* The largest length, in bytes, of a downloaded archive.
MaxDataLen == 49

IV_LEN == 16
MAC_LEN == 32

\* Result<_, SignalError>
Ok(v) == [ok |-> TRUE, err |-> "none", v |-> v]
Err(e) == [ok |-> FALSE, err |-> e, v |-> 0]

\* The HTTP exchange of fetch_transfer_archive: the request failed
\* ("send"), or a response with a status and a body that is a
\* TransferArchiveInfo ("info"), an error object ("error") or neither.
FetchResponses ==
    {[sent |-> FALSE, status |-> 0, body |-> "none", cdn |-> 0]}
    \cup {[sent |-> TRUE, status |-> st, body |-> b, cdn |-> 0] :
            st \in {200, 204, 404, 500}, b \in {"error", "garbage"}}
    \cup {[sent |-> TRUE, status |-> st, body |-> "info", cdn |-> n] :
            st \in {200, 204, 404, 500}, n \in 0..MaxCdn}

\* StatusCode::is_success
is_success(status) == status >= 200 /\ status < 300

fetch_transfer_archive(r) ==
    CASE ~r.sent -> Err("NetworkError")
      [] r.status = 204 -> Err("NetworkError")
      [] ~is_success(r.status) -> Err("NetworkError")
      [] r.body = "garbage" -> Err("ProtocolError")
      [] r.body = "error" -> Err("ProtocolError")
      [] OTHER -> Ok(r.cdn)

\* download_backup's choice of host: "none" is the ProtocolError return.
cdn_base_default(n) ==
    CASE n = 2 -> "cdn2.signal.org"
      [] OTHER -> "cdn3.signal.org"

cdn_base(n) ==
    CASE n = 2 -> "cdn2.signal.org"
      [] n = 3 -> "cdn3.signal.org"
      [] OTHER -> "none"

\* The bytes of a downloaded archive: their number and, when there are at
\* least IV_LEN + MAC_LEN of them, the leading IV_LEN bytes (iv), the
\* trailing MAC_LEN bytes (mac) and those between (ct), each drawn from a
\* small set of values; padded says whether ct decrypts to well-padded
\* plaintext.
Archives ==
    {[len |-> n, iv |-> 0, ct |-> 0, mac |-> 0, padded |-> FALSE] :
        n \in 0..(IV_LEN + MAC_LEN - 1)}
    \cup {[len |-> n, iv |-> i, ct |-> c, mac |-> m, padded |-> p] :
            n \in (IV_LEN + MAC_LEN)..MaxDataLen, i \in 0..1, c \in 0..1,
            m \in 0..3, p \in BOOLEAN}

\* HMAC-SHA256 under keys.hmac_key of the updates iv, then ciphertext: a
\* tag that differs whenever either input differs.
Hmac(iv, ciphertext) == 2 * iv + ciphertext

SOp(op, arg) == [op |-> op, arg |-> arg]

SyncEmit(evs) == sync.events \o evs

\* backup::sync_message_history returned Err(e): so does
\* SignalManager::sync_message_history, and perform_linking reports it.
SyncFails(sy, e) ==
    sync' = [sy EXCEPT !.pc = "returned", !.result = e,
                       !.events = @ \o <<Event("MessageHistorySyncFailed", e)>>]

\* SignalManager::sync_message_history up to the backup pipeline.
sync_message_history ==
    /\ sync.pc = "idle"
    /\ sync' = [sync EXCEPT !.pc = "fetch",
                            !.events = <<Event("MessageHistorySyncProgress", "0/0")>>]

FetchStep(r) ==
    LET res == fetch_transfer_archive(r)
        sy == [sync EXCEPT !.status = r.status,
                           !.ops = Append(@, SOp("GET", "chat.signal.org"))] IN
    /\ sync.pc = "fetch"
    /\ IF res.ok THEN sync' = [sy EXCEPT !.pc = "download", !.cdn = res.v]
                 ELSE SyncFails(sy, res.err)

\* download_backup: outcome is the failure of the request ("send"), of the
\* status check ("status") or of reading the body ("bytes"), or "ok".
download_backup(outcome, d) ==
    LET host == cdn_base(sync.cdn)
        sy == [sync EXCEPT !.ops = Append(@, SOp("GET", host))] IN
    /\ sync.pc = "download"
    /\ CASE host = "none" -> outcome = "ok" /\ d = NoData /\ SyncFails(sync, "ProtocolError")
         [] host # "none" /\ outcome # "ok" -> d = NoData /\ SyncFails(sy, "NetworkError")
         [] OTHER -> sync' = [sy EXCEPT !.pc = "decrypt", !.data = d]

TooShortForIv(d) == d.len < IV_LEN

TooShort(d) == d.len < IV_LEN + MAC_LEN

\* decrypt_backup: the length check, then the key derivation.
decrypt_backup ==
    /\ sync.pc = "decrypt"
    /\ IF TooShort(sync.data)
       THEN SyncFails(sync, "CryptoError")
       ELSE sync' = [sync EXCEPT !.pc = "hmac",
                                 !.ops = @ \o <<SOp("hkdf", "backup_id"),
                                                SOp("hkdf", "message_backup_keys")>>]

\* decrypt_backup: hmac.update(iv), hmac.update(ciphertext),
\* hmac.verify_slice(mac)
HmacVerify ==
    LET d == sync.data
        sy == [sync EXCEPT !.ops = Append(@, SOp("hmac", "iv, ciphertext"))] IN
    /\ sync.pc = "hmac"
    /\ IF Hmac(d.iv, d.ct) = d.mac
       THEN sync' = [sy EXCEPT !.pc = "aes"]
       ELSE SyncFails(sy, "CryptoError")

\* decrypt_backup: AES-256-CBC with PKCS7 padding.
AesDecrypt ==
    LET sy == [sync EXCEPT !.ops = Append(@, SOp("aes", "ciphertext"))] IN
    /\ sync.pc = "aes"
    /\ IF sync.data.padded
       THEN sync' = [sy EXCEPT !.pc = "parse", !.decrypted = TRUE]
       ELSE SyncFails(sy, "CryptoError")

\* parse_backup on the plaintext: it fails only when the gzip stream does.
ParseStep(ok) ==
    LET sy == [sync EXCEPT !.ops = Append(@, SOp("parse", "decrypted"))] IN
    /\ sync.pc = "parse"
    /\ IF ok
       THEN sync' = [sy EXCEPT !.pc = "import",
                               !.events = SyncEmit(<<Event("MessageHistorySyncProgress", "half")>>)]
       ELSE SyncFails(sy, "ProtocolError")

\* import_backup_data, and perform_linking's report of the count.
ImportStep(ok) ==
    /\ sync.pc = "import"
    /\ IF ok
       THEN sync' = [sync EXCEPT
                       !.pc = "returned", !.result = "Ok",
                       !.events = SyncEmit(<<Event("MessageHistorySyncProgress", "all"),
                                             Event("MessageHistorySyncCompleted", "count")>>)]
       ELSE SyncFails(sync, "StorageError")

SyncStep ==
    \/ sync_message_history
    \/ \E r \in FetchResponses : FetchStep(r)
    \/ \E o \in {"ok", "send", "status", "bytes"}, d \in Archives \cup {NoData} :
            download_backup(o, d)
    \/ decrypt_backup
    \/ HmacVerify
    \/ AesDecrypt
    \/ \E ok \in BOOLEAN : ParseStep(ok)
    \/ \E ok \in BOOLEAN : ImportStep(ok)

NextSync == SyncStep /\ UNCHANGED <<tvars, lvars, rvars, pvars, ivars, cvars, stvars, dvars>>

SpecSync == Init /\ [][NextSync]_vars

SyncOps(kinds) == {i \in 1..Len(sync.ops) : sync.ops[i].op \in kinds}
SyncFailed ==
    \E i \in 1..Len(sync.events) : sync.events[i].k = "MessageHistorySyncFailed"

\* C15: decrypt_backup on fewer than 48 bytes returns CryptoError and
\* performs no key derivation, HMAC or AES; AES runs only after the HMAC
\* over iv then ciphertext was computed and equals the trailing tag; when
\* it does not, the result is CryptoError, AES never runs and there is no
\* plaintext.
C15_DecryptFailClosed ==
    /\ [][sync.pc = "decrypt" /\ sync.data.len < 48 =>
            /\ sync'.ops = sync.ops
            /\ sync'.pc = "returned" /\ sync'.result = "CryptoError"
            /\ ~sync'.decrypted]_vars
    /\ [](\A j \in SyncOps({"aes"}) :
            /\ \E i \in SyncOps({"hmac"}) : i < j
            /\ sync.data.len >= 48
            /\ Hmac(sync.data.iv, sync.data.ct) = sync.data.mac)
    /\ [](sync.decrypted => SyncOps({"aes"}) # {})
    /\ [](sync.data.len >= 48 /\ Hmac(sync.data.iv, sync.data.ct) # sync.data.mac =>
            /\ SyncOps({"aes"}) = {} /\ ~sync.decrypted
            /\ sync.pc = "returned" => sync.result = "CryptoError")

C15_Witness ==
    /\ sync.decrypted
    /\ sync.data.len > 48
    /\ sync.data.mac = 3

\* C19 (as claimed): a 204 answer to the transfer archive request does not
\* end the history sync as failed, while any other non-success status
\* does.
C19_NotReadyIsRetryable ==
    /\ sync.status = 204 => ~SyncFailed
    /\ sync.status \notin {0, 204} /\ ~is_success(sync.status) => SyncFailed

Limb == 268435456
U64(lo, mid, hi) == [lo |-> lo, mid |-> mid, hi |-> hi]
Zero64 == U64(0, 0, 0)
IsSmall(v) == v.mid = 0 /\ v.hi = 0

Pow128(k) == CASE k = 0 -> 1 [] k = 1 -> 128 [] k = 2 -> 16384 [] OTHER -> 2097152

\* An accumulation that does not shift the group.
OrUnshifted(result, group, shift) == [result EXCEPT !.lo = @ + group]

\* result |= ((byte & 0x7F) as u64) << shift, where shift is a multiple
\* of 7 below 64: the bits of result at that place are still zero, so the
\* or is an addition; for shift = 63 only bit 0 of the group stays below
\* bit 64, the others are shifted out.
OrShifted(result, group, shift) ==
    LET k == shift \div 7 IN
    CASE k < 4 -> [result EXCEPT !.lo = @ + group * Pow128(k)]
      [] k >= 4 /\ k < 8 -> [result EXCEPT !.mid = @ + group * Pow128(k - 4)]
      [] k = 8 -> [result EXCEPT !.hi = @ + group]
      [] OTHER -> [result EXCEPT !.hi = @ + (group % 2) * 128]

\* Option<u64> with the offset the call leaves behind.
VarintSome(v, offset) == [some |-> TRUE, value |-> v, offset |-> offset]
VarintNone(offset) == [some |-> FALSE, value |-> Zero64, offset |-> offset]

RECURSIVE varint_loop(_, _, _, _)

\* The loop body after result |= ...: r is the new result.
varint_next(data, offset, byte, r, shift) ==
    IF byte < 128 THEN VarintSome(r, offset + 1)
    ELSE IF shift + 7 >= 64 THEN VarintNone(offset + 1)
    ELSE varint_loop(data, offset + 1, r, shift + 7)

varint_loop(data, offset, result, shift) ==
    IF offset < Len(data)
    THEN varint_next(data, offset, data[offset + 1],
                     OrShifted(result, data[offset + 1] % 128, shift), shift)
    ELSE VarintNone(offset)

read_varint(data, offset) == varint_loop(data, offset, Zero64, 0)

\* offset + len as usize: the sum modulo 2^64 and whether it overflowed.
\* With overflow checks (debug builds) an overflow panics, without them
\* (release builds) the sum wraps.
AddUsize(offset, len) ==
    LET lo == len.lo + offset
        mid == len.mid + (lo \div Limb)
        hi == len.hi + (mid \div Limb)
    IN  [value |-> U64(lo % Limb, mid % Limb, hi % 256), overflow |-> hi >= 256]

\* v > n and v <= n for a u64 v and a buffer length n
Exceeds(v, n) == ~IsSmall(v) \/ v.lo > n
Min(a, b) == IF a < b THEN a ELSE b

\* The two builds of the arithmetic: with overflow checks or without.
Builds == {"debug", "release"}

\* Option<u64> and Option<String> / Option<Vec<u8>>
None64 == [some |-> FALSE, v |-> Zero64]
Some64(v) == [some |-> TRUE, v |-> v]
NoBytes == [some |-> FALSE, v |-> <<>>]
SomeBytes(b) == [some |-> TRUE, v |-> b]

\* String::from_utf8(bytes).ok(), on bytes that are ASCII or are not UTF-8
from_utf8(bytes) ==
    IF \A i \in 1..Len(bytes) : bytes[i] < 128 THEN SomeBytes(bytes) ELSE NoBytes

wire_type(tag_byte) == tag_byte % 8

\* The low three bits taken for the field number.
low_bits(tag_byte) == tag_byte % 8

field_number(tag_byte) == tag_byte \div 8

\* The parsers of the records nested in a frame bound every new offset by
\* data.len(); parse_frame and parse_recipient do not.
Clamped(level) == level \notin {"frame", "recipient"}
Advance(level, data, n) == IF Clamped(level) THEN Min(n, Len(data)) ELSE n
\* Where an unclamped offset beyond the buffer is held: any such offset
\* only ends the loop.
Beyond(level, data) == IF Clamped(level) THEN Len(data) ELSE Len(data) + 1

\* hex::encode
HexDigits == <<"0", "1", "2", "3", "4", "5", "6", "7", "8", "9", "a", "b", "c", "d", "e", "f">>

RECURSIVE hex_encode(_)
hex_encode(bytes) ==
    IF bytes = <<>> THEN <<>>
    ELSE <<HexDigits[(Head(bytes) \div 16) + 1], HexDigits[(Head(bytes) % 16) + 1]>>
         \o hex_encode(Tail(bytes))

\* Uuid::to_string: the hex digits in groups of 8, 4, 4, 4 and 12.
Hyphenated(h) ==
    SubSeq(h, 1, 8) \o <<"-">> \o SubSeq(h, 9, 12) \o <<"-">> \o SubSeq(h, 13, 16)
    \o <<"-">> \o SubSeq(h, 17, 20) \o <<"-">> \o SubSeq(h, 21, 32)

\* aci.map(|bytes| Uuid::from_slice(&bytes).map(|u| u.to_string())
\*                  .unwrap_or_else(|_| hex::encode(&bytes)))
uuid_str(aci) ==
    IF ~aci.some THEN NoBytes
    ELSE IF Len(aci.v) = 16 THEN SomeBytes(Hyphenated(hex_encode(aci.v)))
    ELSE SomeBytes(hex_encode(aci.v))

\* The locals of each parser.
NewSt(level) ==
    CASE level = "frame" -> [messages |-> <<>>, conversations |-> <<>>]
      [] level = "recipient" ->
            [id |-> None64, recipient_uuid |-> NoBytes, name |-> NoBytes,
             group_id |-> NoBytes]
      [] level = "contact" -> [aci |-> NoBytes, profile_given_name |-> NoBytes]
      [] level = "group" -> [master_key |-> NoBytes]
      [] level = "chat_item" ->
            [chat_id |-> None64, author_id |-> None64, date_sent |-> None64,
             body |-> NoBytes, is_outgoing |-> FALSE]
      [] OTHER -> [ret |-> NoBytes]

\* What a parser returns from its locals: Option<_> as [some, v].
Returned_(level, st) ==
    CASE level = "frame" -> [some |-> TRUE, v |-> st]
      [] level = "recipient" ->
            [some |-> st.id.some,
             v |-> [id |-> st.id.v, recipient_uuid |-> st.recipient_uuid,
                    group_id |-> st.group_id, name |-> st.name]]
      [] level = "contact" ->
            [some |-> TRUE,
             v |-> [uuid |-> uuid_str(st.aci), name |-> st.profile_given_name]]
      [] level = "group" ->
            [some |-> st.master_key.some, v |-> [gid |-> st.master_key, name |-> NoBytes]]
      [] level = "chat_item" ->
            [some |-> TRUE,
             v |-> [id |-> st.date_sent, conversation_id |-> st.chat_id,
                    sender_uuid |-> st.author_id, body |-> st.body,
                    timestamp |-> st.date_sent, is_outgoing |-> st.is_outgoing]]
      [] OTHER -> [some |-> st.ret.some, v |-> st.ret.v]

\* if let Some(len) = read_varint(data, &mut offset) { let end = offset +
\* len as usize; ... }: the varint, the offset after it (start), whether
\* the addition panics, the sum, and whether end <= data.len().
DelimitedOf(rv, sum, n, build) ==
    [some |-> rv.some, len |-> rv.value, start |-> rv.offset,
     panic |-> rv.some /\ sum.overflow /\ build = "debug",
     inside |-> rv.some /\ ~Exceeds(sum.value, n),
     end |-> sum.value.lo]

DelimitedAfter(rv, n, build) ==
    DelimitedOf(rv, AddUsize(rv.offset, rv.value), n, build)

Delimited(data, offset, build) ==
    DelimitedAfter(read_varint(data, offset), Len(data), build)

\* &data[start..end] panics when end < start, which a wrapped sum is.
SliceOk(d) == d.start <= d.end
Slice(data, d) == SubSeq(data, d.start + 1, d.end)

Next_(off, st) == [outcome |-> "next", off |-> off, st |-> st]
Stop(outcome, st) == [outcome |-> outcome, off |-> 0, st |-> st]

\* The arm (_, 2): offset += len as usize, after the length d.
SkipDelimited(level, data, d, st) ==
    IF ~d.some THEN Next_(d.start, st)
    ELSE IF d.panic THEN Stop("panic", st)
    ELSE Next_(IF d.inside THEN d.end ELSE Beyond(level, data), st)

\* The arms (_, 0), (_, 1), (_, 2), (_, 5) and _ of every parser.
Generic(level, wt, data, o, st, build) ==
    CASE wt = 0 -> Next_(read_varint(data, o).offset, st)
      [] wt = 1 -> Next_(Advance(level, data, o + 8), st)
      [] wt = 5 -> Next_(Advance(level, data, o + 4), st)
      [] wt = 2 -> SkipDelimited(level, data, Delimited(data, o, build), st)
      [] OTHER -> Stop("break", st)

RECURSIVE Scan(_, _, _, _, _, _)
RECURSIVE SubParse(_, _, _)

\* r is what the parser of the nested record returned.
NestedResult(r, d, st, put(_, _)) ==
    IF r.outcome # "ok" THEN Stop(r.outcome, st) ELSE Next_(d.end, put(st, r))

\* The arms of parse_frame and parse_recipient for a nested record: when
\* it lies inside the buffer it is parsed, put(st, r) records what its
\* parser returned, and the offset moves to its end; otherwise the offset
\* stays after the length.
\* d is the length read after the tag; clamp: the parser sets the offset
\* to data.len() when the record runs past the buffer.
NestedIn(sub, data, d, clamp, st, build, put(_, _)) ==
    IF ~d.some THEN Next_(d.start, st)
    ELSE IF d.panic THEN Stop("panic", st)
    ELSE IF ~d.inside THEN Next_(IF clamp THEN Len(data) ELSE d.start, st)
    ELSE IF ~SliceOk(d) THEN Stop("panic", st)
    ELSE NestedResult(SubParse(sub, Slice(data, d), build), d, st, put)

NestedArm(sub, data, o, clamp, st, build, put(_, _)) ==
    NestedIn(sub, data, Delimited(data, o, build), clamp, st, build, put)

\* The arms of the other parsers for a length-delimited field: when it
\* lies inside the buffer and keep(len) holds, put(st, bytes) records it;
\* the offset moves to end.min(data.len()).
BytesIn(data, d, st, keep(_), sliced, put(_, _)) ==
    IF ~d.some THEN Next_(d.start, st)
    ELSE IF d.panic THEN Stop("panic", st)
    ELSE IF ~(d.inside /\ keep(d.len)) THEN
            Next_(IF d.inside THEN d.end ELSE Len(data), st)
    ELSE IF sliced /\ ~SliceOk(d) THEN Stop("panic", st)
    ELSE Next_(d.end, put(st, IF sliced THEN Slice(data, d) ELSE <<>>))

BytesArm(data, o, st, build, keep(_), sliced, put(_, _)) ==
    BytesIn(data, Delimited(data, o, build), st, keep, sliced, put)

\* The arms of parse_standard_message and parse_text that return.
ReturnResult(r, st) ==
    IF r.outcome # "ok" THEN Stop(r.outcome, st)
    ELSE Stop("return", [st EXCEPT !.ret = [some |-> r.some, v |-> r.v]])

ReturnIn(data, d, st, value(_)) ==
    IF ~d.some THEN Next_(d.start, st)
    ELSE IF d.panic THEN Stop("panic", st)
    ELSE IF ~d.inside THEN Next_(d.start, st)
    ELSE IF ~SliceOk(d) THEN Stop("panic", st)
    ELSE ReturnResult(value(Slice(data, d)), st)

ReturnArm(data, o, st, build, value(_)) ==
    ReturnIn(data, Delimited(data, o, build), st, value)

\* id = read_varint(data, &mut offset) and the like.
VarintPut(rv, st, put(_, _)) ==
    Next_(rv.offset, put(st, IF rv.some THEN Some64(rv.value) ELSE None64))

VarintArm(data, o, st, put(_, _)) == VarintPut(read_varint(data, o), st, put)

AnyLen(len) == TRUE
Is16(len) == len = U64(16, 0, 0)
Utf8Result(u) == [outcome |-> "ok", some |-> u.some, v |-> u.v]

\* One iteration of the loop of a parser, after the tag byte at o - 1.
Field(level, fn, wt, data, o, st, build) ==
    CASE level = "frame" /\ fn = 2 /\ wt = 2 ->
            NestedArm("recipient", data, o, FALSE, st, build,
                LAMBDA t, r : IF r.some
                              THEN [t EXCEPT !.conversations = Append(@, r.v)]
                              ELSE t)
      [] level = "frame" /\ fn = 4 /\ wt = 2 ->
            NestedArm("chat_item", data, o, FALSE, st, build,
                LAMBDA t, r : IF r.some
                              THEN [t EXCEPT !.messages = Append(@, r.v)]
                              ELSE t)
      [] level = "recipient" /\ fn = 1 /\ wt = 0 ->
            VarintArm(data, o, st, LAMBDA t, v : [t EXCEPT !.id = v])
      [] level = "recipient" /\ fn = 2 /\ wt = 2 ->
            NestedArm("contact", data, o, FALSE, st, build,
                LAMBDA t, r : IF r.some
                              THEN [t EXCEPT !.recipient_uuid = r.v.uuid,
                                             !.name = r.v.name]
                              ELSE t)
      [] level = "recipient" /\ fn = 3 /\ wt = 2 ->
            NestedArm("group", data, o, FALSE, st, build,
                LAMBDA t, r : IF r.some
                              THEN [t EXCEPT !.group_id = r.v.gid, !.name = r.v.name]
                              ELSE t)
      [] level = "contact" /\ fn = 1 /\ wt = 2 ->
            BytesArm(data, o, st, build, Is16, TRUE,
                LAMBDA t, b : [t EXCEPT !.aci = SomeBytes(b)])
      [] level = "contact" /\ fn = 11 /\ wt = 2 ->
            BytesArm(data, o, st, build, AnyLen, TRUE,
                LAMBDA t, b : [t EXCEPT !.profile_given_name = from_utf8(b)])
      [] level = "group" /\ fn = 1 /\ wt = 2 ->
            BytesArm(data, o, st, build, AnyLen, TRUE,
                LAMBDA t, b : [t EXCEPT !.master_key = SomeBytes(b)])
      [] level = "chat_item" /\ fn = 1 /\ wt = 0 ->
            VarintArm(data, o, st, LAMBDA t, v : [t EXCEPT !.chat_id = v])
      [] level = "chat_item" /\ fn = 2 /\ wt = 0 ->
            VarintArm(data, o, st, LAMBDA t, v : [t EXCEPT !.author_id = v])
      [] level = "chat_item" /\ fn = 3 /\ wt = 0 ->
            VarintArm(data, o, st, LAMBDA t, v : [t EXCEPT !.date_sent = v])
      [] level = "chat_item" /\ fn = 9 /\ wt = 2 ->
            BytesArm(data, o, st, build, AnyLen, FALSE,
                LAMBDA t, b : [t EXCEPT !.is_outgoing = TRUE])
      [] level = "chat_item" /\ fn = 11 /\ wt = 2 ->
            NestedArm("standard_message", data, o, TRUE, st, build,
                LAMBDA t, r : [t EXCEPT !.body = [some |-> r.some, v |-> r.v]])
      [] level = "standard_message" /\ fn = 2 /\ wt = 2 ->
            ReturnArm(data, o, st, build, LAMBDA b : SubParse("text", b, build))
      [] level = "text" /\ fn = 1 /\ wt = 2 ->
            ReturnArm(data, o, st, build, LAMBDA b : Utf8Result(from_utf8(b)))
      [] OTHER -> Generic(level, wt, data, o, st, build)

\* The loop `while offset < data.len()` of a parser.  tags holds the
\* offsets at which a tag byte was read: the loop can come to one of them
\* again only after a wrapped addition, and then it never ends ("hang").
ScanNext(level, data, offset, tags, r, build) ==
    CASE r.outcome = "next" ->
            Scan(level, data, r.off, tags \cup {offset}, r.st, build)
      [] r.outcome \in {"break", "return"} -> [outcome |-> "ok", st |-> r.st]
      [] OTHER -> [outcome |-> r.outcome, st |-> r.st]

ScanTag(level, data, offset, tags, tag_byte, st, build) ==
    ScanNext(level, data, offset, tags,
             Field(level, field_number(tag_byte), wire_type(tag_byte),
                   data, offset + 1, st, build),
             build)

Scan(level, data, offset, tags, st, build) ==
    IF offset >= Len(data) THEN [outcome |-> "ok", st |-> st]
    ELSE IF offset \in tags THEN [outcome |-> "hang", st |-> st]
    ELSE ScanTag(level, data, offset, tags, data[offset + 1], st, build)

\* A parser of a nested record, on the slice it is given.
SubResult(outcome, ret) == [outcome |-> outcome, some |-> ret.some, v |-> ret.v]
SubScanned(level, r) == SubResult(r.outcome, Returned_(level, r.st))
SubParse(level, data, build) ==
    SubScanned(level, Scan(level, data, 0, {}, NewSt(level), build))

parse_recipient(data, build) == SubParse("recipient", data, build)
parse_contact(data, build) == SubParse("contact", data, build)
parse_group(data, build) == SubParse("group", data, build)
parse_chat_item(data, build) == SubParse("chat_item", data, build)
parse_standard_message(data, build) == SubParse("standard_message", data, build)
parse_text(data, build) == SubParse("text", data, build)

\* parse_frame pushes onto the vectors of parse_backup.
FrameScanned(r) ==
    [outcome |-> r.outcome, messages |-> r.st.messages,
     conversations |-> r.st.conversations]

parse_frame(data, messages, conversations, build) ==
    FrameScanned(Scan("frame", data, 0, {},
                      [messages |-> messages, conversations |-> conversations],
                      build))

\* Result<BackupData, SignalError>, or the call does not return: it
\* panics or never ends.
BackupData(outcome, messages, conversations, frame_count) ==
    [outcome |-> outcome, messages |-> messages, conversations |-> conversations,
     frame_count |-> frame_count]

RECURSIVE frames_loop(_, _, _, _, _, _)

\* After parse_frame on the frame that ends at `end` has returned fr.
frame_parsed(data, end, fr, frame_count, build) ==
    IF fr.outcome # "ok"
    THEN BackupData(fr.outcome, <<>>, <<>>, 0)
    ELSE frames_loop(data, end, fr.messages, fr.conversations, frame_count + 1, build)

\* After the length prefix rv, with sum = offset + frame_len.
frame_at(data, rv, sum, messages, conversations, frame_count, build) ==
    IF ~rv.some
    THEN BackupData("Ok", messages, conversations, frame_count)
    ELSE IF sum.overflow /\ build = "debug"
    THEN BackupData("panic", <<>>, <<>>, 0)
    ELSE IF Exceeds(sum.value, Len(data))
    THEN BackupData("Ok", messages, conversations, frame_count)
    ELSE IF rv.offset > sum.value.lo
    THEN BackupData("panic", <<>>, <<>>, 0)
    ELSE frame_parsed(data, sum.value.lo,
                      parse_frame(SubSeq(data, rv.offset + 1, sum.value.lo),
                                  messages, conversations, build),
                      frame_count, build)

frame_after(data, rv, messages, conversations, frame_count, build) ==
    frame_at(data, rv, AddUsize(rv.offset, rv.value),
             messages, conversations, frame_count, build)

frames_loop(data, offset, messages, conversations, frame_count, build) ==
    IF offset >= Len(data)
    THEN BackupData("Ok", messages, conversations, frame_count)
    ELSE frame_after(data, read_varint(data, offset),
                     messages, conversations, frame_count, build)

\* parse_backup on a buffer whose gzip stream decompresses to data, or
\* does not decompress (gz = FALSE).
parse_backup(gz, data, build) ==
    IF gz THEN frames_loop(data, 0, <<>>, <<>>, 0, build)
          ELSE BackupData("ProtocolError", <<>>, <<>>, 0)

\* ------------------------------------------------ inputs of the parser
\* Buffers are built from the varint encoding of the backup format: 7
\* value bits per byte, least significant group first, the high bit set on
\* every byte but the last.
FromSmall(n) == U64(n, 0, 0)
Shr7(v) ==
    U64(v.lo \div 128 + (v.mid % 128) * 2097152,
        v.mid \div 128 + (v.hi % 128) * 2097152,
        v.hi \div 128)

RECURSIVE Encode(_)
Encode(v) ==
    IF IsSmall(v) /\ v.lo < 128 THEN <<v.lo>>
    ELSE <<(v.lo % 128) + 128>> \o Encode(Shr7(v))

Max64 == U64(Limb - 1, Limb - 1, 255)

\* 0, 1, 127, 128, 300, 16383, 16384, 2^28 - 1, 2^28, 2^56, 2^63 - 1, 2^63
\* and 2^64 - 1
VarintValues ==
    {FromSmall(n) : n \in {0, 1, 127, 128, 300, 16383, 16384, Limb - 1}}
    \cup {U64(0, 1, 0), U64(0, 0, 1), U64(Limb - 1, Limb - 1, 127),
           U64(0, 0, 128), Max64}

VarField(fn, v) == <<fn * 8>> \o Encode(v)
LenField(fn, payload) == <<fn * 8 + 2>> \o Encode(FromSmall(Len(payload))) \o payload
Frame(body) == Encode(FromSmall(Len(body))) \o body

\* A Recipient with id 8, and bodies of frames that hold it after a field
\* this parser does not know, of wire type 0, 2, 1 and 5.
Recipient8 == LenField(2, VarField(1, FromSmall(8)))
UnknownThenRecipient ==
    {VarField(7, FromSmall(300)) \o Recipient8,
     LenField(7, <<18, 255>>) \o Recipient8,
     <<57, 1, 2, 3, 4, 5, 6, 7, 8>> \o Recipient8,
     <<61, 1, 2, 3, 4>> \o Recipient8}

\* The frame of the scenario: a recipient 1 that is a contact with the ACI
\* 11111111-1111-1111-1111-111111111111 (sixteen bytes 0x11) and the
\* given name "Alice", and a chat item in chat 1 authored by recipient 1,
\* sent at 5, whose standard message has the text body "hi".
Ascii_Alice == <<65, 108, 105, 99, 101>>
Ascii_hi == <<104, 105>>
AciOnes == [i \in 1..16 |-> 17]
AliceRecipient ==
    LenField(2, VarField(1, FromSmall(1))
                \o LenField(2, LenField(1, AciOnes) \o LenField(11, Ascii_Alice)))
HiChatItem ==
    LenField(4, VarField(1, FromSmall(1)) \o VarField(2, FromSmall(1))
                \o VarField(3, FromSmall(5))
                \o LenField(11, LenField(2, LenField(1, Ascii_hi))))
AliceFrame == AliceRecipient \o HiChatItem

\* Bodies of frames: a recipient, a chat item, a recipient with an unknown
\* field inside, an empty frame; then malformed ones: a wire type 3, a
\* nested record and a varint that run past the end of the frame, and
\* lengths of 2^64 - 1 and 2^64 - 11 on an unknown and on a known field.
FrameBodies ==
    UnknownThenRecipient
    \cup {AliceFrame,
          LenField(2, VarField(1, FromSmall(7))),
          LenField(4, VarField(1, FromSmall(7)) \o VarField(3, FromSmall(9))),
          LenField(2, VarField(9, FromSmall(1)) \o VarField(1, FromSmall(8))),
          <<>>,
          <<59, 1>>,
          <<18, 5, 8>>,
          <<56, 128>>,
          <<58>> \o Encode(Max64),
          <<58>> \o Encode(U64(Limb - 11, Limb - 1, 255)),
          <<18>> \o Encode(Max64)}

\* Length prefixes that are no frame: a truncated varint, a varint of more
\* than ten bytes, a ten-byte varint with bits beyond bit 63, the lengths
\* 2^64 - 1 and 2^63, and a length of 5 before a single byte.
BadPrefixes ==
    {<<128>>,
     <<255, 255, 255, 255, 255, 255, 255, 255, 255, 255, 1>>,
     <<128, 128, 128, 128, 128, 128, 128, 128, 128, 2>>,
     Encode(Max64),
     Encode(U64(0, 0, 128)),
     <<5, 0>>}

Pieces == {Frame(b) : b \in FrameBodies} \cup BadPrefixes

\* Pieces a buffer is made of.
MaxFrames == 2

RECURSIVE Concat(_)
Concat(ps) == IF ps = <<>> THEN <<>> ELSE Head(ps) \o Concat(Tail(ps))

Buffers == {Concat(ps) : ps \in UNION {[1..n -> Pieces] : n \in 0..MaxFrames}}

NoArg == [v |-> Zero64, keep |-> 0]

\* A call of parse_backup.
ParseBackup(gz, data, build) ==
    /\ call.pc = "idle"
    /\ call' = [pc |-> "done", fn |-> "parse_backup", gz |-> gz, data |-> data,
                offset |-> 0, build |-> build, arg |-> NoArg,
                ret |-> parse_backup(gz, data, build)]

\* A call of read_varint at the offset Len(pre), on a buffer that holds
\* after pre the first keep bytes of the encoding of v, and then suf.
ReadVarint(v, pre, keep, suf) ==
    LET data == pre \o SubSeq(Encode(v), 1, keep) \o suf IN
    /\ call.pc = "idle"
    /\ keep < Len(Encode(v)) => suf = <<>>
    /\ call' = [pc |-> "done", fn |-> "read_varint", gz |-> TRUE, data |-> data,
                offset |-> Len(pre), build |-> "debug",
                arg |-> [v |-> v, keep |-> keep],
                ret |-> read_varint(data, Len(pre))]

ParseStep_ ==
    /\ call.pc = "idle"
    /\ \/ \E gz \in BOOLEAN, data \in Buffers, build \in Builds :
              ParseBackup(gz, data, build)
       \/ \E v \in VarintValues, pre \in {<<>>, <<128>>}, suf \in {<<>>, <<0>>, <<255>>} :
              \E keep \in 1..Len(Encode(v)) : ReadVarint(v, pre, keep, suf)

NextParse == ParseStep_ /\ UNCHANGED <<tvars, lvars, rvars, svars, ivars, cvars, stvars, dvars>>

SpecParse == Init /\ [][NextParse]_vars

\* ------------------------------------------- the backup format, as read
\* The varint at an offset, read as the format defines it: its groups up
\* to the first byte without the continuation bit, if the buffer holds
\* one.
RECURSIVE RefGroups(_, _)
RefGroups(data, offset) ==
    IF offset >= Len(data) THEN [whole |-> FALSE, groups |-> <<>>]
    ELSE LET b == data[offset + 1] IN
         IF b < 128 THEN [whole |-> TRUE, groups |-> <<b>>]
         ELSE LET r == RefGroups(data, offset + 1) IN
              [whole |-> r.whole, groups |-> <<b % 128>> \o r.groups]

\* The length prefix of a frame at an offset: truncated, or overflowing 64
\* bits, or a length that runs past the end of the buffer; otherwise the
\* frame is data[start..end].
RefPrefix(data, offset) ==
    LET r == RefGroups(data, offset)
        n == Len(r.groups)
        overflowing == n > 10 \/ (n = 10 /\ r.groups[10] >= 2)
        big == \E i \in 5..n : r.groups[i] # 0
        small == (IF n >= 1 THEN r.groups[1] ELSE 0)
                 + (IF n >= 2 THEN r.groups[2] * 128 ELSE 0)
                 + (IF n >= 3 THEN r.groups[3] * 16384 ELSE 0)
                 + (IF n >= 4 THEN r.groups[4] * 2097152 ELSE 0)
        past == big \/ offset + n + small > Len(data)
    IN  [wellformed |-> r.whole /\ ~overflowing /\ ~past,
         start |-> offset + n, end |-> offset + n + small]

\* The well-formed frames from an offset on, and whether they end at a
\* malformed length prefix rather than at the end of the buffer.
RECURSIVE RefScan(_, _)
RefScan(data, offset) ==
    IF offset >= Len(data) THEN [frames |-> <<>>, malformed |-> FALSE]
    ELSE LET p == RefPrefix(data, offset) IN
         IF ~p.wellformed THEN [frames |-> <<>>, malformed |-> TRUE]
         ELSE LET r == RefScan(data, p.end) IN
              [frames |-> <<[start |-> p.start, end |-> p.end]>> \o r.frames,
               malformed |-> r.malformed]

\* What parse_frame finds in these frames, one after the other.
RECURSIVE FoundIn(_, _, _, _, _, _)
FoundIn(data, frames, i, messages, conversations, build) ==
    IF i > Len(frames)
    THEN BackupData("Ok", messages, conversations, Len(frames))
    ELSE LET fr == parse_frame(Slice(data, frames[i]), messages, conversations, build)
         IN  IF fr.outcome # "ok" THEN BackupData(fr.outcome, <<>>, <<>>, 0)
             ELSE FoundIn(data, frames, i + 1, fr.messages, fr.conversations, build)

ParseBackupCalled == call.pc = "done" /\ call.fn = "parse_backup" /\ call.gz

\* C16 (as claimed): when the well-formed frames of the buffer are followed
\* by a malformed length prefix (truncated, overflowing, or a length past
\* the end of the buffer), parse_backup returns Ok with exactly the
\* conversations, messages and frame count of those frames.
C16_StopsAtMalformedPrefix ==
    ParseBackupCalled =>
        LET ref == RefScan(call.data, 0)
            found == FoundIn(call.data, ref.frames, 1, <<>>, <<>>, call.build)
        IN  ref.malformed /\ found.outcome = "Ok" => call.ret = found

\* C17 (as claimed): whatever the tag and length bytes of the fields of
\* its frames, parse_backup returns Ok with the number of frames scanned,
\* and a recipient that follows an unknown field of wire type 0, 1, 2 or 5
\* in its frame is among the conversations.
C17_NoFieldAborts ==
    ParseBackupCalled =>
        LET ref == RefScan(call.data, 0) IN
        ~ref.malformed =>
            /\ call.ret.outcome = "Ok"
            /\ call.ret.frame_count = Len(ref.frames)
            /\ \A i \in 1..Len(ref.frames) :
                  Slice(call.data, ref.frames[i]) \in UnknownThenRecipient =>
                      \E k \in 1..Len(call.ret.conversations) :
                          call.ret.conversations[k].id = FromSmall(8)

\* C18: read_varint returns the value of a whole varint, for every value
\* of VarintValues (encoded as 0 -> 00, 127 -> 7F, 128 -> 80 01,
\* 16384 -> 80 80 01, 2^63 - 1 -> FF x 8, 7F), and leaves the offset after
\* its last byte, wherever the varint starts and whatever follows it; on a
\* buffer that ends inside the varint it returns None.
C18_VarintDecodes ==
    /\ Encode(FromSmall(0)) = <<0>>
    /\ Encode(FromSmall(127)) = <<127>>
    /\ Encode(FromSmall(128)) = <<128, 1>>
    /\ Encode(FromSmall(16384)) = <<128, 128, 1>>
    /\ Encode(U64(Limb - 1, Limb - 1, 127))
          = <<255, 255, 255, 255, 255, 255, 255, 255, 127>>
    /\ call.pc = "done" /\ call.fn = "read_varint" =>
          LET enc == Encode(call.arg.v) IN
          IF call.arg.keep = Len(enc)
          THEN call.ret = VarintSome(call.arg.v, call.offset + Len(enc))
          ELSE ~call.ret.some

C18_Witness ==
    /\ call.pc = "done" /\ call.fn = "read_varint"
    /\ call.arg.v = U64(Limb - 1, Limb - 1, 127)
    /\ call.arg.keep = 9
    /\ call.offset = 1
    /\ call.ret.some

\* C22: the gzip-wrapped buffer that holds the frame of the scenario alone
\* parses to exactly one conversation, of recipient 1 with that ACI and
\* the name "Alice", and exactly one message, whose text is exactly "hi",
\* in either build.
C22_AliceSaysHi ==
    ParseBackupCalled /\ call.data = Frame(AliceFrame) =>
        /\ call.ret.outcome = "Ok"
        /\ call.ret.frame_count = 1
        /\ Len(call.ret.conversations) = 1
        /\ call.ret.conversations[1].id = FromSmall(1)
        /\ call.ret.conversations[1].recipient_uuid
              = SomeBytes(<<"1", "1", "1", "1", "1", "1", "1", "1", "-",
                            "1", "1", "1", "1", "-", "1", "1", "1", "1", "-",
                            "1", "1", "1", "1", "-",
                            "1", "1", "1", "1", "1", "1", "1", "1", "1", "1", "1", "1">>)
        /\ call.ret.conversations[1].name = SomeBytes(<<65, 108, 105, 99, 101>>)
        /\ Len(call.ret.messages) = 1
        /\ call.ret.messages[1].body = SomeBytes(<<104, 105>>)
        /\ call.ret.messages[1].conversation_id = Some64(FromSmall(1))
        /\ call.ret.messages[1].sender_uuid = Some64(FromSmall(1))

C22_Witness ==
    /\ ParseBackupCalled /\ call.data = Frame(AliceFrame)
    /\ call.build = "release"
    /\ Len(call.ret.messages) = 1

\* ------------------------------------------------- importing a backup
\* Conversations, and messages, of one BackupData.
MaxItems == 2

\* Option<String> / Option<Vec<u8>>
NoneStr == [some |-> FALSE, v |-> ""]
SomeStr(v) == [some |-> TRUE, v |-> v]

BackupConversation(id, recipient_uuid, group_id) ==
    [id |-> id, recipient_uuid |-> recipient_uuid, group_id |-> group_id,
     name |-> NoneStr]

BackupMessage(id, conversation_id, body, is_outgoing) ==
    [id |-> id, conversation_id |-> conversation_id, sender_uuid |-> "2",
     body |-> body, timestamp |-> 5000, is_outgoing |-> is_outgoing]

\* Two recipients with the same ACI, a group recorded under the id of the
\* second, and a recipient that is neither a contact nor a group.
BackupConversations ==
    {BackupConversation("1", SomeStr("aci-a"), NoneStr),
     BackupConversation("2", SomeStr("aci-a"), NoneStr),
     BackupConversation("2", NoneStr, SomeStr("g")),
     BackupConversation("3", NoneStr, NoneStr)}

\* Two messages with the same id, the second in a conversation that is not
\* in the backup, and one without a body.
BackupMessages ==
    {BackupMessage("10", "1", SomeStr("hi"), FALSE),
     BackupMessage("10", "3", SomeStr("yo"), TRUE),
     BackupMessage("11", "1", NoneStr, FALSE)}

BackupDatas ==
    [conversations : UNION {[1..n -> BackupConversations] : n \in 0..MaxItems},
     messages : UNION {[1..n -> BackupMessages] : n \in 0..MaxItems}]

\* base64::engine::general_purpose::STANDARD.encode
base64(g) == "b64:" \o g

\* An id that is the raw id for a group as well.
storage_id_no_group(conv, fallback) ==
    IF conv.recipient_uuid.some THEN conv.recipient_uuid.v ELSE fallback

\* The id both converters give the conversation of a record.
storage_id(conv, fallback) ==
    IF conv.group_id.some THEN base64(conv.group_id.v)
    ELSE IF conv.recipient_uuid.some THEN conv.recipient_uuid.v
    ELSE fallback

convert_backup_conversation(backup, now) ==
    [id |-> storage_id(backup, backup.id),
     conversation_type |-> IF backup.group_id.some THEN "Group" ELSE "Private",
     name |-> IF backup.name.some THEN backup.name.v
              ELSE IF backup.group_id.some THEN "Group"
              ELSE IF backup.recipient_uuid.some THEN backup.recipient_uuid.v
              ELSE "Unknown",
     created_at |-> now, updated_at |-> now]

\* conv_map.get(&backup_msg.conversation_id): the last record of the
\* backup with that id, when there is one.
conv_map(conversations, id) ==
    LET at == {i \in 1..Len(conversations) : conversations[i].id = id} IN
    IF at = {} THEN [some |-> FALSE, v |-> BackupConversation(id, NoneStr, NoneStr)]
    ELSE [some |-> TRUE,
          v |-> conversations[CHOOSE i \in at : \A j \in at : j <= i]]

convert_backup_message(backup, conv_info) ==
    [id |-> backup.id,
     conversation_id |-> IF conv_info.some
                         THEN storage_id(conv_info.v, backup.conversation_id)
                         ELSE backup.conversation_id,
     sender |-> IF backup.is_outgoing THEN "self" ELSE backup.sender_uuid,
     direction |-> IF backup.is_outgoing THEN "outgoing" ELSE "incoming",
     status |-> "read",
     body |-> IF backup.body.some THEN backup.body.v ELSE "",
     sent_at |-> backup.timestamp \div 1000]

\* A table that keeps the rows it has next to the new one.
Insert(table, row) == table \cup {row}

\* INSERT OR REPLACE on a table whose primary key is id.
InsertOrReplace(table, row) == {r \in table : r.id # row.id} \cup {row}

Ids(table) == {r.id : r \in table}

\* ConversationRepository::save for each conversation of the backup, in
\* order; the save at position failing is not executed by SQLite.
RECURSIVE SaveConversations(_, _, _, _, _)
SaveConversations(table, conversations, i, failing, now) ==
    IF i > Len(conversations) THEN [table |-> table, count |-> 0]
    ELSE IF i = failing
    THEN SaveConversations(table, conversations, i + 1, failing, now)
    ELSE [SaveConversations(
              InsertOrReplace(table, convert_backup_conversation(conversations[i], now)),
              conversations, i + 1, failing, now)
          EXCEPT !.count = @ + 1]

\* MessageRepository::save for each message with a body; with foreign keys
\* enforced a message whose conversation has no row is refused.
RECURSIVE SaveMessages(_, _, _, _, _)
SaveMessages(t, data, i, failing, fk) ==
    IF i > Len(data.messages) THEN [table |-> t.messages, count |-> 0]
    ELSE IF ~data.messages[i].body.some
    THEN SaveMessages(t, data, i + 1, failing, fk)
    ELSE IF i = failing
    THEN SaveMessages(t, data, i + 1, failing, fk)
    ELSE IF fk = "on" /\ convert_backup_message(
                     data.messages[i],
                     conv_map(data.conversations, data.messages[i].conversation_id)
                   ).conversation_id \notin Ids(t.conversations)
    THEN SaveMessages(t, data, i + 1, failing, fk)
    ELSE [SaveMessages(
              [t EXCEPT !.messages =
                  InsertOrReplace(@, convert_backup_message(
                      data.messages[i],
                      conv_map(data.conversations, data.messages[i].conversation_id)))],
              data, i + 1, failing, fk)
          EXCEPT !.count = @ + 1]

\* The tables after the two loops of import_backup_data.
Imported(t, convs, data, failing_msg, fk) ==
    [t EXCEPT !.conversations = convs.table,
              !.messages = SaveMessages([t EXCEPT !.conversations = convs.table],
                                        data, 1, failing_msg, fk).table,
              !.foreign_keys = fk]

\* (conversations_imported, messages_imported)
Counts(t, convs, data, failing_msg, fk) ==
    <<convs.count,
      SaveMessages([t EXCEPT !.conversations = convs.table],
                   data, 1, failing_msg, fk).count>>

\* One run of import_backup_data, the first with any BackupData and the
\* later ones with the BackupData of the first.  available: storage.database()
\* is Some; failing_conv, failing_msg: the position of a save that SQLite
\* fails to execute (0: none); fk: whether foreign keys are enforced.
import_backup_data(data, available, failing_conv, failing_msg, fk) ==
    LET now == IF imported.run = "none" THEN "first" ELSE "later"
        next == IF imported.run = "none" THEN "first" ELSE "second"
    IN
    /\ imported.run # "none" => data = imported.data
    /\ tables.foreign_keys # "unset" => fk = tables.foreign_keys
    /\ IF ~available
       THEN /\ tables' = tables
            /\ imported' =
                 [imported EXCEPT
                    !.run = next, !.data = data, !.ret = "StorageError",
                    !.counts = <<0, 0>>,
                    !.first_ok = IF imported.run = "none" THEN FALSE ELSE @,
                    !.after_first = IF imported.run = "none"
                                    THEN <<Ids(tables.conversations), Ids(tables.messages)>>
                                    ELSE @]
       ELSE /\ tables' = Imported(tables,
                                  SaveConversations(tables.conversations,
                                                    data.conversations, 1,
                                                    failing_conv, now),
                                  data, failing_msg, fk)
            /\ imported' =
                 [imported EXCEPT
                    !.run = next, !.data = data, !.ret = "Ok",
                    !.counts = Counts(tables,
                                      SaveConversations(tables.conversations,
                                                        data.conversations, 1,
                                                        failing_conv, now),
                                      data, failing_msg, fk),
                    !.first_ok = IF imported.run = "none"
                                 THEN failing_conv = 0 /\ failing_msg = 0
                                 ELSE @,
                    !.after_first = IF imported.run = "none"
                                    THEN <<Ids(tables'.conversations), Ids(tables'.messages)>>
                                    ELSE @]

ImportStep_ ==
    \E available \in BOOLEAN, failing_conv \in 0..1,
       failing_msg \in 0..1, fk \in {"on", "off"} :
        \/ /\ imported.run = "none"
           /\ \E data \in BackupDatas :
                 import_backup_data(data, available, failing_conv, failing_msg, fk)
        \/ /\ imported.run # "none"
           /\ import_backup_data(imported.data, available, failing_conv,
                                 failing_msg, fk)

NextImport == ImportStep_ /\ UNCHANGED <<tvars, lvars, rvars, svars, pvars, cvars, stvars, dvars>>

SpecImport == Init /\ [][NextImport]_vars

MaxCellCalls == 3

\* CapturedProvisioningData values: with and without an ephemeral backup
\* key, two of each.
CapturedDatas == {Some(ebk, k) : ebk \in BOOLEAN, k \in {1, 2}}

\* A take that leaves the cell as it is.
CellUntouched == CAPTURED_BACKUP_KEY

\* guard.take() leaves None in the cell.
CellAfterTake == None

\* A call on the cell: the function, its argument, the cell before and
\* after, and what it returned.
CellCall(fn, arg, after, ret) ==
    /\ Len(cell_calls) < MaxCellCalls
    /\ CAPTURED_BACKUP_KEY' = after
    /\ cell_calls' = Append(cell_calls,
                            [fn |-> fn, arg |-> arg, before |-> CAPTURED_BACKUP_KEY,
                             after |-> after, ret |-> ret])

StoreCapturedData(d) == CellCall("store_captured_data", d, d, None)

take_captured_data == CellCall("take_captured_data", None, CellAfterTake, CAPTURED_BACKUP_KEY)

HasBackupKey ==
    CellCall("has_backup_key", None, CAPTURED_BACKUP_KEY,
             IF has_backup_key THEN "true" ELSE "false")

GetEphemeralBackupKey ==
    CellCall("get_ephemeral_backup_key", None, CellAfterGet, get_ephemeral_backup_key)

CellStep ==
    \/ \E d \in CapturedDatas : StoreCapturedData(d)
    \/ take_captured_data
    \/ HasBackupKey
    \/ GetEphemeralBackupKey

NextCell == CellStep /\ UNCHANGED <<tvars, linking_state, nflows, flow, levents, seen, ninputs, rvars, svars, pvars, ivars, stvars, dvars>>

SpecCell == Init /\ [][NextCell]_vars

\* The calls after call i up to the next store_captured_data.
UntilNextStore(i) ==
    {j \in (i + 1)..Len(cell_calls) :
        \A k \in (i + 1)..j : cell_calls[k].fn # "store_captured_data"}

\* C23: has_backup_key() right after store_captured_data(d) is true exactly
\* when d carries an ephemeral backup key; take_captured_data() right after
\* it returns d; and from a take_captured_data() until the next store the
\* cell is empty: has_backup_key() is false, get_ephemeral_backup_key() and
\* take_captured_data() return nothing.
C23_StoreTakeEmpties ==
    \A i \in 1..Len(cell_calls) :
        /\ cell_calls[i].fn = "store_captured_data" /\ i < Len(cell_calls) =>
              /\ cell_calls[i + 1].fn = "has_backup_key" =>
                    (cell_calls[i + 1].ret = "true" <=> cell_calls[i].arg.ebk)
              /\ cell_calls[i + 1].fn = "take_captured_data" =>
                    cell_calls[i + 1].ret = cell_calls[i].arg
        /\ cell_calls[i].fn = "take_captured_data" =>
              /\ cell_calls[i].after = None
              /\ i = Len(cell_calls) => CAPTURED_BACKUP_KEY = None
              /\ \A j \in UntilNextStore(i) :
                    /\ cell_calls[j].fn = "has_backup_key" => cell_calls[j].ret = "false"
                    /\ cell_calls[j].fn \in {"get_ephemeral_backup_key",
                                              "take_captured_data"} =>
                          cell_calls[j].ret = None

C23_Witness ==
    /\ Len(cell_calls) = 3
    /\ cell_calls[1].fn = "store_captured_data" /\ cell_calls[1].arg = Some(TRUE, 1)
    /\ cell_calls[2].fn = "take_captured_data" /\ cell_calls[2].ret = Some(TRUE, 1)
    /\ cell_calls[3].fn = "take_captured_data" /\ cell_calls[3].ret = None

\* ------------------------------------------------------------ the Storage
EncryptionMethods == {"AutoGenerated", "Keychain", "Password"}

needs_password == storage.method = "Password" /\ ~storage.database_unlocked
is_database_unlocked == storage.database_unlocked
database == storage.database

\* A call on the Storage returns: the state it leaves and its result.
StorageReturns(fn, after, ret) ==
    /\ storage' = after
    /\ storage_call' = [fn |-> fn, ret |-> ret, before |-> storage]

\* Storage::new on the saved configuration; key, open: encryption_provider
\* .get_key(None) and Database::open_encrypted succeed.
StorageNew(method, configured, key, open) ==
    /\ ~storage.built
    /\ LET opened == method # "Password" /\ configured /\ key /\ open IN
       StorageReturns("new",
                      [built |-> TRUE, method |-> method, configured |-> configured,
                       database |-> opened, database_unlocked |-> opened],
                      "Ok")

unlock_database(key, open) ==
    /\ storage.built
    /\ IF storage.database_unlocked
       THEN StorageReturns("unlock_database", storage, "Ok")
       ELSE IF ~key \/ ~open
       THEN StorageReturns("unlock_database", storage, "Err")
       ELSE StorageReturns("unlock_database",
                           [storage EXCEPT !.database = TRUE,
                                           !.database_unlocked = TRUE],
                           "Ok")

\* setup: provider.setup(password) and Database::open_encrypted succeed;
\* saved: save_config succeeds.
setup_encryption(method, setup, saved) ==
    /\ storage.built
    /\ IF ~setup
       THEN StorageReturns("setup_encryption", storage, "Err")
       ELSE StorageReturns("setup_encryption",
                           [storage EXCEPT !.database = TRUE,
                                           !.database_unlocked = TRUE,
                                           !.method = method,
                                           !.configured = TRUE],
                           IF saved THEN "Ok" ELSE "Err")

\* A flag that does not look at the database.
UnlockedWhatever(new_method, has_database) == TRUE

\* is_unlocked in migrate_encryption
UnlockedAfterMigration(new_method, has_database) ==
    new_method # "Password" \/ has_database

\* prepared: get_key of the old provider, setup of the new one, the rekey
\* and the removal of the old key succeed.
migrate_encryption(new_method, prepared, saved) ==
    /\ storage.built
    /\ IF ~prepared
       THEN StorageReturns("migrate_encryption", storage, "Err")
       ELSE StorageReturns("migrate_encryption",
                           [storage EXCEPT
                              !.method = new_method,
                              !.configured = TRUE,
                              !.database_unlocked =
                                  UnlockedAfterMigration(new_method, storage.database)],
                           IF saved THEN "Ok" ELSE "Err")

\* removed: every file removal succeeds; default: the method of
\* EncryptionConfig::default().
clear_all(removed, default) ==
    /\ storage.built
    /\ IF ~removed
       THEN StorageReturns("clear_all",
                           [storage EXCEPT !.database = FALSE,
                                           !.database_unlocked = FALSE],
                           "Err")
       ELSE StorageReturns("clear_all",
                           [storage EXCEPT !.database = FALSE,
                                           !.database_unlocked = FALSE,
                                           !.method = default,
                                           !.configured = FALSE],
                           "Ok")

StorageStep ==
    \/ \E method \in EncryptionMethods, configured, key, open \in BOOLEAN :
            StorageNew(method, configured, key, open)
    \/ \E key, open \in BOOLEAN : unlock_database(key, open)
    \/ \E method \in EncryptionMethods, setup, saved \in BOOLEAN :
            setup_encryption(method, setup, saved)
    \/ \E method \in EncryptionMethods, prepared, saved \in BOOLEAN :
            migrate_encryption(method, prepared, saved)
    \/ \E removed \in BOOLEAN, default \in EncryptionMethods :
            clear_all(removed, default)

NextStorage == StorageStep /\ UNCHANGED <<tvars, lvars, rvars, svars, pvars, ivars, cvars, dvars>>

SpecStorage == Init /\ [][NextStorage]_vars

PasswordConfigured(st) == st.built /\ st.method = "Password" /\ st.configured

\* C24: a Storage with Password encryption configured that holds no
\* database is locked: needs_password() is true and is_database_unlocked()
\* false.  When unlock_database returns Ok on it, is_database_unlocked() is
\* true, needs_password() false and database() is Some; when it returns
\* Err, the Storage is as before: locked, with no database.
C24_PasswordUnlock ==
    /\ PasswordConfigured(storage) /\ ~database =>
          needs_password /\ ~is_database_unlocked
    /\ storage_call.fn = "unlock_database" /\ PasswordConfigured(storage_call.before) =>
          /\ storage_call.ret = "Ok" =>
                is_database_unlocked /\ ~needs_password /\ database
          /\ storage_call.ret = "Err" =>
                /\ storage = storage_call.before
                /\ needs_password /\ ~is_database_unlocked /\ ~database

C24_Witness ==
    /\ storage_call.fn = "unlock_database" /\ storage_call.ret = "Ok"
    /\ PasswordConfigured(storage_call.before)
    /\ ~storage_call.before.database_unlocked
    /\ is_database_unlocked /\ database

\* ------------------------------------------------- backup key derivation
MaxDerivations == 3

BACKUP_ID_LEN == 16
AES_KEY_LEN == 32
HMAC_KEY_LEN == 32

\* Hkdf::<Sha256>::new(None, ikm): the pseudorandom key is a function of
\* the input key alone.
HkdfNew(ikm) == <<"prk", ikm>>

\* hkdf.expand(info, okm): byte i of the output is a function of the
\* pseudorandom key, the info and i, whatever the length asked for.
HkdfExpand(prk, info, len) == [i \in 1..len |-> <<prk, info, i>>]

INFO_BACKUP_ID == <<"20241024_SIGNAL_BACKUP_ID:">>
INFO_MESSAGE_BACKUP == <<"20241007_SIGNAL_BACKUP_ENCRYPT_MESSAGE_BACKUP:">>

derive_backup_id(backup_key, aci) ==
    HkdfExpand(HkdfNew(backup_key), INFO_BACKUP_ID \o aci, BACKUP_ID_LEN)

\* The whole expansion, taken for both keys.
WholeKey(full_key) ==
    [hmac_key |-> full_key, aes_key |-> full_key]

\* hmac_key.copy_from_slice(&full_key[..HMAC_KEY_LEN]);
\* aes_key.copy_from_slice(&full_key[HMAC_KEY_LEN..])
DerivedKeys(full_key) ==
    [hmac_key |-> SubSeq(full_key, 1, HMAC_KEY_LEN),
     aes_key |-> SubSeq(full_key, HMAC_KEY_LEN + 1, Len(full_key))]

derive_message_backup_keys(backup_key, backup_id) ==
    DerivedKeys(HkdfExpand(HkdfNew(backup_key), INFO_MESSAGE_BACKUP \o backup_id,
                           HMAC_KEY_LEN + AES_KEY_LEN))

\* Backup keys and ACIs: all zero (Uuid::nil) and not.
BackupKeys == {[i \in 1..32 |-> 0], [i \in 1..32 |-> IF i = 32 THEN 1 ELSE 0]}
Acis == {[i \in 1..16 |-> 0], AciOnes}

NoKeys == [hmac_key |-> <<>>, aes_key |-> <<>>]

\* decrypt_backup derives the backup id from the key and the ACI ...
DeriveBackupId(backup_key, aci) ==
    /\ Len(derived) < MaxDerivations
    /\ IF derived = <<>> THEN TRUE ELSE derived[Len(derived)].keys # NoKeys
    /\ derived' = Append(derived, [backup_key |-> backup_key, aci |-> aci,
                                   backup_id |-> derive_backup_id(backup_key, aci),
                                   keys |-> NoKeys])

\* ... and the two keys from the key and that backup id.
DeriveMessageBackupKeys ==
    /\ derived # <<>>
    /\ derived[Len(derived)].keys = NoKeys
    /\ derived' = [derived EXCEPT ![Len(derived)].keys =
                       derive_message_backup_keys(derived[Len(derived)].backup_key,
                                                  derived[Len(derived)].backup_id)]

DeriveStep ==
    \/ \E backup_key \in BackupKeys, aci \in Acis : DeriveBackupId(backup_key, aci)
    \/ DeriveMessageBackupKeys

NextDerive == DeriveStep /\ UNCHANGED <<tvars, lvars, rvars, svars, pvars, ivars, cvars, stvars>>

SpecDerive == Init /\ [][NextDerive]_vars

\* The 64 bytes expanded for a derivation
FullKeyOf(d) ==
    HkdfExpand(HkdfNew(d.backup_key), INFO_MESSAGE_BACKUP \o d.backup_id,
               HMAC_KEY_LEN + AES_KEY_LEN)

C26_LatestLoopPublished ==
    nloops > 0 /\ pc[nloops] \in Running => SEND_TX = nloops

C28_DisconnectedMeansUnpublished ==
    last_conn = "Disconnected" =>
        /\ SEND_TX = 0
        /\ \A l \in Loops : inflight[l] \ {0} = {}

\* C29 (as claimed): once connect() has been called, connection_state() is
\* the state of the latest ConnectionStateChanged event when that is
\* Connected or Disconnected.
C29_StateAgreesWithEvents ==
    /\ \E l \in Loops : Has(events[l], Connecting)
    /\ last_conn \in {"Connected", "Disconnected"}
    => connection_state = last_conn

SyncCompleted == Event("SyncCompleted", "")
ContactUpdated == Event("ContactUpdated", "all")
MessageReceived(sender) == Event("MessageReceived", sender)

\* A sync echo and the data message it carries.
EchoOf(s, m) ==
    /\ s \in SyncContents /\ s.sent = "message"
    /\ m \in DataContents
    /\ s.empty = m.empty /\ s.att = m.att /\ s.group = m.group

EmptyContents ==
    {item \in DataContents \cup SyncContents :
        /\ item.empty /\ item.att = 0
        /\ item.body = "SynchronizeMessage" => item.sent = "message"}

\* C31: process_content returns None for a data message or a sync echo
\* with an empty body and no attachment, and the loop that handles one
\* sends no event on any session, leaves connection_state and SEND_TX as
\* they are and is at its select for the next item.
C31_EmptyDroppedSilently ==
    /\ [](\A item \in EmptyContents : process_content(item) = NoMessage)
    /\ [][\A l \in Loops, item \in EmptyContents :
            Inbound(l, item) =>
                /\ events' = events /\ last_conn' = last_conn
                /\ connection_state' = connection_state
                /\ SEND_TX' = SEND_TX
                /\ pc'[l] = "select"
                /\ queue' = queue /\ inflight' = inflight]_vars

\* A session whose second call was an inbound item that left no trace.
C31_Witness ==
    /\ nloops = 1 /\ pc[1] = "select" /\ SEND_TX = 1
    /\ ncalls = 2
    /\ events[1] = <<Connected>> /\ events[0] = <<>>
    /\ \A c \in Cmds : cmd[c] = NewCmd

\* C32: no ConnectionStateChanged(Reconnecting) is sent on any session or
\* by a linking flow, and connection_state is never Reconnecting.
C32_NeverReconnecting ==
    /\ connection_state # "Reconnecting"
    /\ last_conn # "Reconnecting"
    /\ \A t \in DOMAIN events :
          ~Has(events[t], ConnectionStateChanged("Reconnecting"))
    /\ \A f \in Flows :
          \A i \in 1..Len(levents[f]) : levents[f][i].k # "ConnectionStateChanged"

\* connect(), a loop that reported Connected, then disconnect().
C32_Witness ==
    /\ connection_state = "Disconnected"
    /\ events[0] = <<Disconnected>>
    /\ \E l \in Loops : events[l] = <<Connecting, Connected>>

\* A request that cannot be processed: unknown verb or path, or a body that
\* is missing, undecodable, undecryptable or lacks a mandatory field.
Unprocessable(r) == r.path = "unknown" \/ r.body # "ok"

OpsOf(f, id) == {i \in 1..Len(flow[f].trace) : flow[f].trace[i].id = id}

\* C33: when the read loop of a provisioning session gets a request that
\* cannot be processed, run_provisioning_capture returns ProtocolError; it
\* has written no response and made no callback for that request, has
\* sent no ProvisioningUrlReady, and the captured-secrets cell is as before.
C33_UnprocessableRequest ==
    [][\A f \in Flows, r \in Requests, sent \in BOOLEAN :
          (Unprocessable(r) /\ WsRead(f, r, sent)) =>
              /\ flow'[f].provision_msg = "ProtocolError"
              /\ flow'[f].pc = "done"
              /\ \A i \in 1..Len(flow'[f].trace) :
                    flow'[f].trace[i].id = r.id =>
                        flow'[f].trace[i].op \notin {"write", "callback", "store"}
              /\ flow'[f].url_callback = flow[f].url_callback
              /\ levents'[f] = Append(levents[f], Event("LinkingFailed", "ProtocolError"))
              /\ CAPTURED_BACKUP_KEY' = CAPTURED_BACKUP_KEY]_vars

\* A second session, after one that stored its data, was given a request
\* it could not process: the data of the first is still in the cell.
C33_Witness ==
    \E f \in Flows :
        /\ flow[f].pc = "done" /\ flow[f].result = "Err"
        /\ flow[f].provision_msg = "ProtocolError"
        /\ CAPTURED_BACKUP_KEY.some /\ CAPTURED_BACKUP_KEY.by # f

SyncOutcomeEvents == {"MessageHistorySyncCompleted", "MessageHistorySyncFailed"}

Positions(f, kinds) == {i \in 1..Len(levents[f]) : levents[f][i].k \in kinds}

InFlight == {f \in Flows : flow[f].pc \notin {"idle", "done"}}

\* C35 (as claimed): at most one linking flow is in flight.
C35_OneFlowInFlight == Cardinality(InFlight) <= 1

\* C36 (as claimed): parse_backup comes to an end on every decompressed
\* input: no loop of it reads a tag at an offset it has read one at before.
C36_ParseTerminates ==
    ParseBackupCalled => call.ret.outcome # "hang"

\* The key of a backup conversation: the base64 of the group master key of
\* a group, otherwise the ACI of the contact, otherwise the raw id.
KeyOf(c) ==
    IF c.group_id.some THEN "b64:" \o c.group_id.v
    ELSE IF c.recipient_uuid.some THEN c.recipient_uuid.v
    ELSE c.id

\* The first run of import_backup_data has returned Ok, on empty tables.
FirstImportDone == imported.run = "first" /\ imported.ret = "Ok"

\* C37: after a first import, every conversation row has the key of a
\* conversation of the backup, and has a row unless its save failed; every
\* message row comes from a message of the backup that has a body, with its
\* id, with the key of the last backup conversation whose id is its chat
\* id, or the raw chat id when there is none, and with the sender "self"
\* if it is outgoing and its author id if not.
C37_ImportMapping ==
    FirstImportDone =>
        LET convs == imported.data.conversations
            msgs == imported.data.messages
        IN
        /\ \A r \in tables.conversations :
              \E i \in 1..Len(convs) :
                  /\ r.id = KeyOf(convs[i])
                  /\ r.conversation_type = "Group" <=> convs[i].group_id.some
        /\ imported.first_ok =>
              \A i \in 1..Len(convs) : KeyOf(convs[i]) \in Ids(tables.conversations)
        /\ \A m \in tables.messages :
              \E i \in 1..Len(msgs) :
                  /\ msgs[i].body.some /\ m.body = msgs[i].body.v
                  /\ m.id = msgs[i].id
                  /\ m.sender = IF msgs[i].is_outgoing THEN "self"
                                ELSE msgs[i].sender_uuid
                  /\ LET at == {j \in 1..Len(convs) :
                                   convs[j].id = msgs[i].conversation_id}
                     IN  m.conversation_id =
                           IF at = {} THEN msgs[i].conversation_id
                           ELSE KeyOf(convs[CHOOSE j \in at : \A k \in at : k <= j])
        /\ \A i \in 1..Len(msgs) :
              (\A j \in 1..Len(msgs) : msgs[j].id = msgs[i].id => ~msgs[j].body.some)
                  => msgs[i].id \notin Ids(tables.messages)

\* A group and a recipient that is neither contact nor group, both under
\* their keys, and the message of an unknown chat sent by this account.
C37_Witness ==
    /\ FirstImportDone /\ imported.first_ok
    /\ Ids(tables.conversations) = {"b64:g", "3"}
    /\ \E m \in tables.messages : m.sender = "self" /\ m.conversation_id = "3"
    /\ Len(imported.data.messages) = 2

\* C38 (as claimed): after import_backup_data has returned, every row of
\* the messages table has the id of a row of the conversations table as
\* its conversation_id.
C38_MessagesHaveConversation ==
    FirstImportDone =>
        \A m \in tables.messages : m.conversation_id \in Ids(tables.conversations)

\* C39 (as claimed): the message count import_backup_data returns is the
\* number of message rows the import has left in the table.
C39_CountIsRows ==
    FirstImportDone => imported.counts[2] = Cardinality(tables.messages)
====
